---- MODULE Spec2Model ----
(***************************************************************************)
(* Eduvance.world: the financial-document rules that live in the database  *)
(* migrations (number sequencing, line-item totals, client statement,      *)
(* recurring invoices) and the client handlers that drive them.            *)
(*                                                                         *)
(* Conventions                                                             *)
(*   - text values are sequences of one-character strings, so that         *)
(*     formatting (LPAD, ::text) and parsing (SUBSTRING ... FROM regex,    *)
(*     CAST AS integer, LIKE) are computed character by character;         *)
(*   - numeric money values are integers counting 1/10000 of a currency    *)
(*     unit (PostgreSQL numeric is exact decimal arithmetic);              *)
(*   - dates are day numbers, day 1 being 1 January of EpochYear; a        *)
(*     timestamp is a record [day, tod], tod = 0 for exactly 00:00:00 and  *)
(*     tod = 1 for any later instant of that day;                          *)
(*   - a table is a function from row ids to rows.                         *)
(***************************************************************************)
EXTENDS Integers, Sequences, FiniteSets, TLC

VARIABLES
  today,               \* CURRENT_DATE, a day number
  invoices,            \* table invoices
  invoice_items,       \* table invoice_items
  credit_notes,        \* table credit_notes
  credit_note_items,   \* table credit_note_items
  students,            \* table students
  recurring_invoices,  \* table recurring_invoices
  ran_today,           \* whether the daily cron job has run on the current day
  sessions,            \* one open form (browser tab) per session: its onSubmit position
  assessments,         \* table assessments
  clients,             \* table clients
  import_modal,        \* the open CSV import dialog of each entity type
  report_cards,        \* table report_cards
  report_card_subjects,\* table report_card_subjects
  report_form,         \* the report-card form of each user: its onSubmit position
  invoice_list,        \* InvoiceList of each user: the invoices state it fetched
  email_logs,          \* table email_logs
  guest_forms          \* the create forms of a browser with no signed-in user

\* the financial documents, their forms and the scheduler
docVars == <<today, invoices, invoice_items, credit_notes, credit_note_items,
             students, recurring_invoices, ran_today, sessions>>

\* the state that no handler of the financial documents touches
importVars == <<clients, import_modal>>
reportVars == <<report_cards, report_card_subjects, report_form>>
trackVars == <<invoice_list, email_logs>>
sideVars == <<assessments, importVars, reportVars, trackVars, guest_forms>>

vars == <<docVars, sideVars>>

-----------------------------------------------------------------------------
(* Bounds of the model *)

MaxInvoices == 2
MaxCreditNotes == 1
MaxItems == 2
MaxFormItems == 2
NumSessions == 2

Users == {"u1", "u2"}
Sessions == 1..NumSessions
Clients == {"c1", "c2"}
ClientOwner(c) == IF c = "c1" THEN "u1" ELSE "u2"

NoText == << >>
SqlNull == <<"NULL">>
SqlError == <<"ERROR">>

-----------------------------------------------------------------------------
(* Generic helpers *)

Max2(a, b) == IF a >= b THEN a ELSE b
Min2(a, b) == IF a <= b THEN a ELSE b

RECURSIVE SetSum(_, _)
\* the sum of f[x] over the finite set S
SetSum(f, S) ==
  IF S = {} THEN 0
  ELSE LET x == CHOOSE y \in S : TRUE IN f[x] + SetSum(f, S \ {x})

SetMax(S) == CHOOSE x \in S : \A y \in S : y <= x

\* the smallest unused id of a table (ids stand for gen_random_uuid values)
FreshId(tbl) == CHOOSE i \in 1..(Cardinality(DOMAIN tbl) + 1) : i \notin DOMAIN tbl

Put(tbl, id, row) == [x \in DOMAIN tbl \cup {id} |-> IF x = id THEN row ELSE tbl[x]]
Drop(tbl, ids) == [x \in DOMAIN tbl \ ids |-> tbl[x]]
EmptyTable == [x \in {} |-> 0]

-----------------------------------------------------------------------------
(* Text: integer formatting and parsing as PostgreSQL does them *)

Digits == <<"0", "1", "2", "3", "4", "5", "6", "7", "8", "9">>
IsDigit(c) == \E d \in 1..10 : Digits[d] = c
DigitVal(c) == (CHOOSE d \in 1..10 : Digits[d] = c) - 1

RECURSIVE IntToText(_)
\* n::text for n >= 0
IntToText(n) ==
  IF n < 10 THEN <<Digits[n + 1]>>
  ELSE IntToText(n \div 10) \o <<Digits[(n % 10) + 1]>>

RECURSIVE TextToInt(_)
\* CAST(t AS integer) for a text of digits
TextToInt(t) ==
  IF Len(t) = 0 THEN 0
  ELSE 10 * TextToInt(SubSeq(t, 1, Len(t) - 1)) + DigitVal(t[Len(t)])

\* LPAD(t, n, fill): pads on the left up to n characters, and TRUNCATES on
\* the right a text that is longer than n
LPAD(t, n, fill) ==
  IF Len(t) >= n THEN SubSeq(t, 1, n)
  ELSE [i \in 1..(n - Len(t)) |-> fill] \o t

\* t LIKE p || '%'
StartsWith(t, p) == Len(t) >= Len(p) /\ SubSeq(t, 1, Len(p)) = p

RECURSIVE DigitRun(_, _)
\* the longest run of digits of t that starts at position i (greedy \d+)
DigitRun(t, i) ==
  IF i > Len(t) \/ ~IsDigit(t[i]) THEN << >>
  ELSE <<t[i]>> \o DigitRun(t, i + 1)

\* whether  lit \d{4} - \d+  matches t at position i
MatchesAt(t, lit, i) ==
  LET n == Len(lit) IN
    /\ i + n + 5 <= Len(t)
    /\ SubSeq(t, i, i + n - 1) = lit
    /\ \A k \in (i + n)..(i + n + 3) : IsDigit(t[k])
    /\ t[i + n + 4] = "-"
    /\ IsDigit(t[i + n + 5])

\* SUBSTRING(t FROM 'lit\d{4}-(\d+)'): the captured group of the leftmost
\* match, SqlNull when the pattern matches nowhere
RegexSequencePart(t, lit) ==
  LET hits == {i \in 1..Len(t) : MatchesAt(t, lit, i)} IN
    IF hits = {} THEN SqlNull
    ELSE LET i == CHOOSE h \in hits : \A g \in hits : h <= g
         IN DigitRun(t, i + Len(lit) + 5)

-----------------------------------------------------------------------------
(* Calendar: dates as day numbers, interval arithmetic as PostgreSQL's *)

EpochYear == 2025

IsLeap(y) == (y % 4 = 0 /\ y % 100 # 0) \/ y % 400 = 0
DaysInMonth(y, m) ==
  IF m = 2 THEN (IF IsLeap(y) THEN 29 ELSE 28)
  ELSE IF m \in {4, 6, 9, 11} THEN 30 ELSE 31

RECURSIVE DayToYMD(_, _, _)
\* day d counted from the first of month m of year y, as <<year, month, day>>
DayToYMD(y, m, d) ==
  IF d <= DaysInMonth(y, m) THEN <<y, m, d>>
  ELSE IF m = 12 THEN DayToYMD(y + 1, 1, d - DaysInMonth(y, m))
  ELSE DayToYMD(y, m + 1, d - DaysInMonth(y, m))

ToYMD(n) == DayToYMD(EpochYear, 1, n)

RECURSIVE DaysBefore(_, _)
\* the number of days from 1 January of EpochYear to the first of month m of year y
DaysBefore(y, m) ==
  IF y = EpochYear /\ m = 1 THEN 0
  ELSE IF m = 1 THEN DaysBefore(y - 1, 12) + DaysInMonth(y - 1, 12)
  ELSE DaysBefore(y, m - 1) + DaysInMonth(y, m - 1)

FromYMD(y, m, d) == DaysBefore(y, m) + d

YearOf(n) == ToYMD(n)[1]

\* date + interval 'k months': same day of the month, clamped to the month's end
AddMonths(n, k) ==
  LET ymd == ToYMD(n)
      total == (ymd[2] - 1) + k
      y == ymd[1] + (total \div 12)
      m == (total % 12) + 1
  IN FromYMD(y, m, Min2(ymd[3], DaysInMonth(y, m)))

\* to_char(current_date, 'YYYY')
CurrentYearText == IntToText(YearOf(today))

ImportKinds == {"student", "client"}

\* useState(null) / useState([]): no error, empty preview; reading holds the
\* files whose handleFileChange is suspended at  await file.text()
ClosedImport == [error |-> "none", preview |-> << >>, reading |-> {}, selected |-> {}]

\* ReportCardForm with no save under way
IdleReportForm == [pc |-> "idle", error |-> "none", editing |-> {}, data |-> << >>]

\* the school and import state before any record is captured
\* the forms and dialogs that create a row
CreateOps == {"student", "assessment", "invoice", "credit_note", "recurring",
              "report_card", "import_student", "import_client", "bulk_invoice"}

\* a create form as it is mounted: no error shown, no insert request sent
FreshCreateForm == [error |-> "none", requested |-> FALSE]

NoSchoolRecords ==
  /\ assessments = EmptyTable
  /\ clients = EmptyTable
  /\ import_modal = [k \in ImportKinds |-> ClosedImport]
  /\ report_cards = EmptyTable
  /\ report_card_subjects = EmptyTable
  /\ report_form = [u \in Users |-> IdleReportForm]
  /\ invoice_list = [u \in Users |-> EmptyTable]
  /\ email_logs = EmptyTable
  /\ guest_forms = [op \in CreateOps |-> FreshCreateForm]

-----------------------------------------------------------------------------
(* Row-level security *)

\* the role a SECURITY DEFINER function runs as: the owner of the tables,
\* to whom no row-level policy applies
Definer == "definer"

\* the rows of a table that a SELECT run by caller sees (policy USING
\* (auth.uid() = user_id))
Visible(tbl, caller) ==
  {id \in DOMAIN tbl : caller = Definer \/ tbl[id].user_id = caller}

-----------------------------------------------------------------------------
(* Sequence generators *)

InvPrefix == <<"I", "N", "V", "-">>
CnPrefix == <<"C", "N", "-">>
InvoicePad == 3
CreditNotePad == 3
StudentPad == 4

\* COALESCE((SELECT MAX(CAST(SUBSTRING(number FROM 'lit\d{4}-(\d+)') AS integer))
\*           FROM ... WHERE number LIKE 'lit' || year || '-%'), 0) + 1
NextNumber(numbers, lit, year) ==
  LET parts == {RegexSequencePart(t, lit) :
                  t \in {n \in numbers : StartsWith(n, lit \o year \o <<"-">>)}}
      ints == {TextToInt(p) : p \in parts \ {SqlNull}}
  IN (IF ints = {} THEN 0 ELSE SetMax(ints)) + 1

\* tbl is the table invoices as the call finds it
generate_invoice_number(tbl, caller) ==
  LET year == CurrentYearText
      next_number == NextNumber({tbl[i].number : i \in Visible(tbl, caller)},
                                InvPrefix, year)
  IN InvPrefix \o year \o <<"-">> \o LPAD(IntToText(next_number), InvoicePad, "0")

generate_credit_note_number(caller) ==
  LET year == CurrentYearText
      next_number == NextNumber({credit_notes[i].number : i \in Visible(credit_notes, caller)},
                                CnPrefix, year)
  IN CnPrefix \o year \o <<"-">> \o LPAD(IntToText(next_number), CreditNotePad, "0")

\* The function declares a PL/pgSQL variable student_number and reads the
\* column students.student_number in its SELECT ... FROM students: with the
\* default plpgsql.variable_conflict = error (no migration changes it) the
\* SELECT raises 'column reference "student_number" is ambiguous' on every call.
AmbiguousColumnReference == TRUE

generate_student_number(caller) ==
  LET year == CurrentYearText
      next_number == NextNumber({students[i].student_number : i \in Visible(students, caller)},
                                << >>, year)
  IN IF AmbiguousColumnReference THEN SqlError
     ELSE year \o <<"-">> \o LPAD(IntToText(next_number), StudentPad, "0")

\* BEFORE INSERT trigger on students
set_student_number(new_student_number, caller) ==
  IF new_student_number = SqlNull THEN generate_student_number(caller)
  ELSE new_student_number

-----------------------------------------------------------------------------
(* Line-item totals *)

PercentBase == 100

\* the amounts of the line items of document d
ItemsOf(items, d) == {i \in DOMAIN items : items[i].doc = d}
AmountOf(items) == [i \in DOMAIN items |-> items[i].amount]

\* the trigger with its two UPDATEs merged into one: the tax is computed from
\* the subtotal the row had before the statement
update_invoice_totals_OneUpdate(docs, items, new_invoice_id) ==
  [d \in DOMAIN docs |->
     IF d \notin new_invoice_id THEN docs[d]
     ELSE LET sub == SetSum(AmountOf(items), ItemsOf(items, d))
              rate == docs[d].tax_rate
          IN [docs[d] EXCEPT !.subtotal = sub,
                             !.tax_amount = (docs[d].subtotal * rate) \div PercentBase,
                             !.total = docs[d].subtotal
                                       + ((docs[d].subtotal * rate) \div PercentBase)]]

\* AFTER INSERT OR UPDATE OR DELETE ... FOR EACH ROW. new_invoice_id is the
\* set holding NEW.invoice_id; it is empty when the statement is a DELETE,
\* where NEW is null, so that WHERE id = NEW.invoice_id selects no row
update_invoice_totals(docs, items, new_invoice_id) ==
  [d \in DOMAIN docs |->
     IF d \notin new_invoice_id THEN docs[d]
     ELSE LET sub == SetSum(AmountOf(items), ItemsOf(items, d))
              rate == docs[d].tax_rate
          IN [docs[d] EXCEPT !.subtotal = sub,
                             !.tax_amount = (sub * rate) \div PercentBase,
                             !.total = sub + ((sub * rate) \div PercentBase)]]

update_credit_note_totals(docs, items, new_credit_note_id) ==
  [d \in DOMAIN docs |->
     IF d \notin new_credit_note_id THEN docs[d]
     ELSE LET sub == SetSum(AmountOf(items), ItemsOf(items, d))
              rate == docs[d].tax_rate
          IN [docs[d] EXCEPT !.subtotal = sub,
                             !.tax_amount = (sub * rate) \div PercentBase,
                             !.total = sub + ((sub * rate) \div PercentBase)]]

Kinds == {"invoice", "credit_note"}
DocsOf(kind) == IF kind = "invoice" THEN invoices ELSE credit_notes
ItemTableOf(kind) == IF kind = "invoice" THEN invoice_items ELSE credit_note_items
MaxDocs(kind) == IF kind = "invoice" THEN MaxInvoices ELSE MaxCreditNotes

TotalsTrigger(kind, docs, items, new_id) ==
  IF kind = "invoice" THEN update_invoice_totals(docs, items, new_id)
  ELSE update_credit_note_totals(docs, items, new_id)

\* the effect of one statement on the two tables of a document kind
SetTables(kind, docs, items) ==
  IF kind = "invoice"
  THEN /\ invoices' = docs
       /\ invoice_items' = items
       /\ UNCHANGED <<credit_notes, credit_note_items>>
  ELSE /\ credit_notes' = docs
       /\ credit_note_items' = items
       /\ UNCHANGED <<invoices, invoice_items>>

\* policy "Users can manage ... items for their ...": the parent is the caller's
OwnsDoc(kind, u, d) == d \in DOMAIN DocsOf(kind) /\ DocsOf(kind)[d].user_id = u

ItemRow(d, q, r, a) == [doc |-> d, quantity |-> q, rate |-> r, amount |-> a]

\* INSERT INTO invoice_items / credit_note_items of one row
InsertItem(kind, u, d, q, r, a) ==
  /\ OwnsDoc(kind, u, d)
  /\ Cardinality(DOMAIN ItemTableOf(kind)) < MaxItems
  /\ LET items == Put(ItemTableOf(kind), FreshId(ItemTableOf(kind)), ItemRow(d, q, r, a))
     IN SetTables(kind, TotalsTrigger(kind, DocsOf(kind), items, {d}), items)
  /\ UNCHANGED <<sideVars, today, students, recurring_invoices, ran_today, sessions>>

\* UPDATE of the quantity, rate and amount of one row
UpdateItem(kind, u, i, q, r, a) ==
  /\ i \in DOMAIN ItemTableOf(kind)
  /\ OwnsDoc(kind, u, ItemTableOf(kind)[i].doc)
  /\ ItemRow(ItemTableOf(kind)[i].doc, q, r, a) # ItemTableOf(kind)[i]
  /\ LET d == ItemTableOf(kind)[i].doc
         items == [ItemTableOf(kind) EXCEPT ![i] = ItemRow(d, q, r, a)]
     IN SetTables(kind, TotalsTrigger(kind, DocsOf(kind), items, {d}), items)
  /\ UNCHANGED <<sideVars, today, students, recurring_invoices, ran_today, sessions>>

\* UPDATE of the parent reference of one row: the row leaves its document
\* for document d2; NEW.invoice_id is d2
MoveItem(kind, u, i, d2) ==
  /\ i \in DOMAIN ItemTableOf(kind)
  /\ OwnsDoc(kind, u, ItemTableOf(kind)[i].doc)
  /\ OwnsDoc(kind, u, d2)
  /\ d2 # ItemTableOf(kind)[i].doc
  /\ LET items == [ItemTableOf(kind) EXCEPT ![i].doc = d2]
     IN SetTables(kind, TotalsTrigger(kind, DocsOf(kind), items, {d2}), items)
  /\ UNCHANGED <<sideVars, today, students, recurring_invoices, ran_today, sessions>>

\* DELETE of one row: the trigger runs with NEW null
DeleteItem(kind, u, i) ==
  /\ i \in DOMAIN ItemTableOf(kind)
  /\ OwnsDoc(kind, u, ItemTableOf(kind)[i].doc)
  /\ LET items == Drop(ItemTableOf(kind), {i})
     IN SetTables(kind, TotalsTrigger(kind, DocsOf(kind), items, {}), items)
  /\ UNCHANGED <<sideVars, today, students, recurring_invoices, ran_today, sessions>>

-----------------------------------------------------------------------------
(* The create forms: InvoiceForm.onSubmit and CreditNoteForm.onSubmit        *)
(* A session runs one onSubmit at a time; each await is a step.              *)

\* a session is an open InvoiceForm (kind "invoice"), CreditNoteForm (kind
\* "credit_note") or AddStudentModal (kind "student") of a signed-in user
IdleSession(kind, u) == [pc |-> "idle", kind |-> kind, user |-> u, number |-> NoText,
                         doc |-> 0, error |-> "none"]

\* const { data: { user } } = await supabase.auth.getUser()
SessionUser(s) == sessions[s].user

GenerateNumber(kind, caller) ==
  IF kind = "invoice" THEN generate_invoice_number(invoices, caller)
  ELSE generate_credit_note_number(caller)

\* the form's default due date: 14 days after the date
FormDueDays == 14

NewDocRow(kind, number, u, c, date, tax) ==
  IF kind = "invoice"
  THEN [number |-> number, client_id |-> c, user_id |-> u, date |-> date,
        due_date |-> date + FormDueDays, tax_rate |-> tax, subtotal |-> 0, tax_amount |-> 0, total |-> 0,
        status |-> "draft", created_at |-> today]
  ELSE [number |-> number, client_id |-> c, user_id |-> u, date |-> date,
        tax_rate |-> tax, subtotal |-> 0, tax_amount |-> 0, total |-> 0,
        status |-> "draft"]

\* number text UNIQUE: the index covers the rows of every user
NumberTaken(kind, number) == \E d \in DOMAIN DocsOf(kind) : DocsOf(kind)[d].number = number

\* setError(null); await supabase.rpc('generate_invoice_number' | 'generate_credit_note_number')
CallGenerator(s) ==
  /\ sessions[s].pc = "idle"
  /\ sessions[s].kind \in Kinds
  /\ sessions' = [sessions EXCEPT ![s] =
        [pc |-> "numbered", kind |-> sessions[s].kind, user |-> sessions[s].user,
         number |-> GenerateNumber(sessions[s].kind, SessionUser(s)), doc |-> 0,
         error |-> "none"]]
  /\ UNCHANGED <<sideVars, today, invoices, invoice_items, credit_notes, credit_note_items,
                 students, recurring_invoices, ran_today>>

\* await supabase.from('invoices' | 'credit_notes').insert({...}).select().single()
\* with the number the generator returned: the row is stored, or the insert is
\* rejected by the unique constraint on number
InsertDocument(s, c, date, tax) ==
  LET kind == sessions[s].kind
      number == sessions[s].number
  IN /\ sessions[s].pc = "numbered"
     /\ IF NumberTaken(kind, number)
        THEN /\ sessions' = [sessions EXCEPT ![s].pc = "idle", ![s].error = "create_failed"]
             /\ UNCHANGED <<invoices, invoice_items, credit_notes, credit_note_items>>
        ELSE /\ Cardinality(DOMAIN DocsOf(kind)) < MaxDocs(kind)
             /\ LET id == FreshId(DocsOf(kind))
                IN /\ SetTables(kind,
                                Put(DocsOf(kind), id,
                                    NewDocRow(kind, number, SessionUser(s), c, date, tax)),
                                ItemTableOf(kind))
                   /\ sessions' = [sessions EXCEPT ![s].pc = "inserted", ![s].doc = id]
     /\ UNCHANGED <<sideVars, today, students, recurring_invoices, ran_today>>

\* the same insert answered with an error that is not about the row (the
\* request does not reach the database, the backend is unavailable)
InsertDocumentError(s) ==
  /\ sessions[s].pc = "numbered"
  /\ sessions' = [sessions EXCEPT ![s].pc = "idle", ![s].error = "create_failed"]
  /\ UNCHANGED <<sideVars, today, invoices, invoice_items, credit_notes, credit_note_items,
                 students, recurring_invoices, ran_today>>

RECURSIVE PutItems(_, _, _)
\* the rows of one multi-row INSERT
PutItems(items, d, form_items) ==
  IF form_items = << >> THEN items
  ELSE PutItems(Put(items, FreshId(items),
                    ItemRow(d, form_items[1].quantity, form_items[1].rate,
                            form_items[1].quantity * form_items[1].rate)),
                d, Tail(form_items))

\* await supabase.from('invoice_items' | 'credit_note_items').insert(data.items.map(...)),
\* then navigate: the AFTER ROW triggers run once all the rows are in
InsertFormItems(s, form_items) ==
  LET kind == sessions[s].kind
      d == sessions[s].doc
  IN /\ sessions[s].pc = "inserted"
     /\ Cardinality(DOMAIN ItemTableOf(kind)) + Len(form_items) <= MaxItems
     /\ LET items == PutItems(ItemTableOf(kind), d, form_items)
        IN SetTables(kind, TotalsTrigger(kind, DocsOf(kind), items, {d}), items)
     /\ sessions' = [sessions EXCEPT ![s].pc = "idle"]
     /\ UNCHANGED <<sideVars, today, students, recurring_invoices, ran_today>>

\* AddStudentModal.onSubmit: one INSERT INTO students without a
\* student_number; the BEFORE INSERT trigger fills it in, and an error raised
\* in the trigger fails the insert
AddStudent(s) ==
  /\ sessions[s].pc = "idle"
  /\ sessions[s].kind = "student"
  /\ LET number == set_student_number(SqlNull, SessionUser(s))
         taken == \E i \in DOMAIN students : students[i].student_number = number
     IN IF number = SqlError \/ taken
        THEN /\ sessions' = [sessions EXCEPT ![s].number = number,
                                             ![s].error = "create_failed"]
             /\ UNCHANGED students
        ELSE /\ sessions' = [sessions EXCEPT ![s].number = number, ![s].error = "none"]
             /\ students' = Put(students, FreshId(students),
                                [student_number |-> number, user_id |-> SessionUser(s)])
  /\ UNCHANGED <<sideVars, today, invoices, invoice_items, credit_notes, credit_note_items,
                 recurring_invoices, ran_today>>

\* midnight passes
NextDay(last) ==
  /\ today < last
  /\ today' = today + 1
  /\ UNCHANGED <<sideVars, invoices, invoice_items, credit_notes, credit_note_items, students,
                 recurring_invoices, ran_today, sessions>>

-----------------------------------------------------------------------------
(* Inputs *)

Quantities == {1, 2}
Rates == {0, 500, 10000}
TaxRates == {0, 15}
FormItem == [quantity : Quantities, rate : Rates]
FormItems == UNION {[1..n -> FormItem] : n \in 1..MaxFormItems}
OwnClients(u) == {c \in Clients : ClientOwner(c) = u}

-----------------------------------------------------------------------------
(* Line items: one client creating documents and editing their items *)

TotalsFirstDay == 40

InitTotals ==
  /\ today = TotalsFirstDay
  /\ invoices = EmptyTable
  /\ invoice_items = EmptyTable
  /\ credit_notes = EmptyTable
  /\ credit_note_items = EmptyTable
  /\ students = EmptyTable
  /\ recurring_invoices = EmptyTable
  /\ NoSchoolRecords
  /\ ran_today = FALSE
  /\ \E kind \in Kinds : sessions = [s \in Sessions |-> IdleSession(kind, "u1")]

TotalsItem == [quantity : Quantities, rate : {500, 10000}]

CreateStep ==
  \/ CallGenerator(1)
  \/ \E tax \in TaxRates : InsertDocument(1, "c1", today, tax)
  \/ \E it \in TotalsItem : InsertFormItems(1, <<it>>)

InsertStep == \E kind \in Kinds, d \in 1..Max2(MaxInvoices, MaxCreditNotes), it \in TotalsItem :
  InsertItem(kind, "u1", d, it.quantity, it.rate, it.quantity * it.rate)

EditStep == \E kind \in Kinds, i \in 1..MaxItems, it \in TotalsItem :
  UpdateItem(kind, "u1", i, it.quantity, it.rate, it.quantity * it.rate)

MoveStep == \E kind \in Kinds, i \in 1..MaxItems, d \in 1..Max2(MaxInvoices, MaxCreditNotes) :
  MoveItem(kind, "u1", i, d)

DeleteStep == \E kind \in Kinds, i \in 1..MaxItems : DeleteItem(kind, "u1", i)

NextInsertEdit == CreateStep \/ InsertStep \/ EditStep
SpecInsertEdit == InitTotals /\ [][NextInsertEdit]_vars

NextItems == CreateStep \/ InsertStep \/ EditStep \/ MoveStep \/ DeleteStep
SpecItems == InitTotals /\ [][NextItems]_vars

\* the totals of document d are the ones its present line items give
TotalsConsistent(kind, d) ==
  LET row == DocsOf(kind)[d]
      sum == SetSum(AmountOf(ItemTableOf(kind)), ItemsOf(ItemTableOf(kind), d))
  IN /\ row.subtotal = sum
     /\ row.tax_amount * PercentBase = row.subtotal * row.tax_rate
     /\ row.total = row.subtotal + row.tax_amount

\* C2: after any sequence of line-item insertions and in-place edits, every
\* invoice and every credit note has subtotal = sum of its items' amounts,
\* tax_amount = subtotal * tax_rate / 100 and total = subtotal + tax_amount.
C2_TotalsFollowItems ==
  \A kind \in Kinds : \A d \in DOMAIN DocsOf(kind) : TotalsConsistent(kind, d)

\* a document whose item was edited in place after a second item was added
C2_Witness ==
  \E kind \in Kinds : \E d \in DOMAIN DocsOf(kind) :
    /\ DocsOf(kind)[d].tax_rate > 0
    /\ Cardinality(ItemsOf(ItemTableOf(kind), d)) >= 2
    /\ \E i \in ItemsOf(ItemTableOf(kind), d) : \E j \in ItemsOf(ItemTableOf(kind), d) :
         ItemTableOf(kind)[i].amount # ItemTableOf(kind)[j].amount
    /\ DocsOf(kind)[d].tax_amount > 0

\* C3: a step that removes a line item from a document (a DELETE, or an
\* UPDATE that moves the item to another document) leaves that document with
\* the totals of its remaining items, and with subtotal 0 when none remains.
C3_RemovalRecomputes ==
  [][\A kind \in Kinds : \A d \in DOMAIN DocsOf(kind) :
       (\E i \in ItemsOf(ItemTableOf(kind), d) :
           i \notin ItemsOf(ItemTableOf(kind), d)')
       => /\ TotalsConsistent(kind, d)'
          /\ (ItemsOf(ItemTableOf(kind), d)' = {} => DocsOf(kind)[d]'.subtotal = 0)]_vars

-----------------------------------------------------------------------------
(* Number sequences: forms of one or two accounts saving at the same time *)

SeqFirstDay == 364
SeqDays == 2
FormKinds == {"invoice", "credit_note", "student"}
\* the table holds nothing yet, or already the 999th invoice of the year
SeedNumbers == {0, 999}

SeedInvoices(n) ==
  IF n = 0 THEN EmptyTable
  ELSE Put(EmptyTable, 1,
           NewDocRow("invoice",
                     InvPrefix \o IntToText(YearOf(SeqFirstDay)) \o <<"-">> \o IntToText(n),
                     "u1", "c1", SeqFirstDay, 0))

InitSeq ==
  /\ today = SeqFirstDay
  /\ \E n \in SeedNumbers : invoices = SeedInvoices(n)
  /\ invoice_items = EmptyTable
  /\ credit_notes = EmptyTable
  /\ credit_note_items = EmptyTable
  /\ students = EmptyTable
  /\ recurring_invoices = EmptyTable
  /\ NoSchoolRecords
  /\ ran_today = FALSE
  /\ sessions \in [Sessions -> {IdleSession(k, u) : k \in FormKinds, u \in Users}]

NextSeq ==
  \/ \E s \in Sessions : CallGenerator(s)
  \/ \E s \in Sessions : InsertDocument(s, "c1", today, 0)
  \/ \E s \in Sessions : InsertDocumentError(s)
  \/ \E s \in Sessions : InsertFormItems(s, <<[quantity |-> 1, rate |-> 500]>>)
  \/ \E s \in Sessions : AddStudent(s)
  \/ NextDay(SeqFirstDay + SeqDays)

SpecSeq == InitSeq /\ [][NextSeq]_vars

\* left-padding with zeros up to n characters
PadLeft(t, n) == IF Len(t) >= n THEN t ELSE [i \in 1..(n - Len(t)) |-> "0"] \o t

\* the numeric parts of the texts  lit year - digits  among numbers
NumericParts(numbers, lit, year) ==
  LET head == lit \o year \o <<"-">> IN
    {TextToInt(SubSeq(t, Len(head) + 1, Len(t))) :
       t \in {n \in numbers : StartsWith(n, head) /\ Len(n) > Len(head)
                              /\ \A k \in (Len(head) + 1)..Len(n) : IsDigit(n[k])}}

\* the identifier the contract asks for: numeric part 1 + the maximum of the
\* existing ones of the year (1 when there is none), zero-padded to pad digits
ExpectedNumber(numbers, lit, pad) ==
  LET parts == NumericParts(numbers, lit, CurrentYearText)
      next == IF parts = {} THEN 1 ELSE SetMax(parts) + 1
  IN lit \o CurrentYearText \o <<"-">> \o PadLeft(IntToText(next), pad)

\* C1: two forms of one account that hold a generated number of the same
\* kind at the same time hold different numbers.
C1_ConcurrentNumbersDistinct ==
  \A s1 \in Sessions : \A s2 \in Sessions :
    (/\ s1 # s2
     /\ sessions[s1].pc = "numbered" /\ sessions[s2].pc = "numbered"
     /\ sessions[s1].kind = sessions[s2].kind
     /\ sessions[s1].user = sessions[s2].user)
    => sessions[s1].number # sessions[s2].number

\* C4: for every caller each generator returns PREFIX-Y-NNN (Y-NNNN for
\* students) with NNN = 1 + the maximum numeric part of the existing numbers
\* of the current year, zero-padded.
C4_GeneratorReturnsMaxPlusOne ==
  \A u \in Users :
    /\ generate_invoice_number(invoices, u)
         = ExpectedNumber({invoices[i].number : i \in DOMAIN invoices}, InvPrefix, InvoicePad)
    /\ generate_credit_note_number(u)
         = ExpectedNumber({credit_notes[i].number : i \in DOMAIN credit_notes},
                          CnPrefix, CreditNotePad)
    /\ generate_student_number(u)
         = ExpectedNumber({students[i].student_number : i \in DOMAIN students},
                          << >>, StudentPad)

\* C5: when the insert of a document is rejected, the next call of the
\* generator (same kind, same account, same year) returns the number the
\* failed attempt had been given.
C5_FailedCreateKeepsNumber ==
  [][\A s \in Sessions :
       (/\ sessions[s].pc = "numbered"
        /\ sessions'[s].error = "create_failed"
        /\ today' = today)
       => GenerateNumber(sessions[s].kind, sessions[s].user)' = sessions[s].number]_vars

-----------------------------------------------------------------------------
(* Client statement *)

\* RecordPaymentModal.onSubmit: UPDATE invoices SET status = 'paid' WHERE id = d,
\* under the policy "Users can update their own invoices"
RecordPayment(u, d) ==
  /\ OwnsDoc("invoice", u, d)
  /\ invoices[d].status # "paid"
  /\ invoices' = [invoices EXCEPT ![d].status = "paid"]
  /\ UNCHANGED <<sideVars, today, invoice_items, credit_notes, credit_note_items, students,
                 recurring_invoices, ran_today, sessions>>

\* the CTE transactions: one invoice entry per invoice of the client in the
\* range, and one payment entry per paid one, for the calling user
Transactions(uid, p_client_id, p_start_date, p_end_date) ==
  LET inRange == {i \in DOMAIN invoices :
                    /\ invoices[i].client_id = p_client_id
                    /\ p_start_date <= invoices[i].date /\ invoices[i].date <= p_end_date
                    /\ invoices[i].user_id = uid}
  IN {[inv |-> i, date |-> invoices[i].date, reference |-> invoices[i].number,
       type |-> "invoice", debit |-> invoices[i].total, credit |-> 0] : i \in inRange}
     \cup
     {[inv |-> i, date |-> invoices[i].date, reference |-> invoices[i].number,
       type |-> "payment", debit |-> 0, credit |-> invoices[i].total] :
         i \in {j \in inRange : invoices[j].status = "paid"}}

\* a sort key that does not tell invoices from payments
TypeRank_Same(t) == 0

\* ORDER BY t.date, CASE WHEN t.type = 'invoice' THEN 0 ELSE 1 END
TypeRank(t) == IF t.type = "invoice" THEN 0 ELSE 1
OrderedBefore(a, b) == a.date < b.date \/ (a.date = b.date /\ TypeRank(a) < TypeRank(b))
Peers(a, b) == a.date = b.date /\ TypeRank(a) = TypeRank(b)

\* SUM(t.debit - t.credit) OVER (ORDER BY ...): with no frame clause the frame
\* is RANGE BETWEEN UNBOUNDED PRECEDING AND CURRENT ROW, which runs to the last
\* peer of the current row
WindowSum(T, t) ==
  LET frame == {x \in T : OrderedBefore(x, t) \/ Peers(x, t)}
  IN SetSum([x \in frame |-> x.debit - x.credit], frame)

\* the rows of the result, each with its running_balance
StatementRows(uid, p_client_id, p_start_date, p_end_date) ==
  LET T == Transactions(uid, p_client_id, p_start_date, p_end_date)
  IN {[inv |-> t.inv, date |-> t.date, reference |-> t.reference, type |-> t.type,
       debit |-> t.debit, credit |-> t.credit, running_balance |-> WindowSum(T, t)] :
        t \in T}

\* the orders the final ORDER BY may return the rows in: peers come in any
\* order, so each result starts with a row that no other row is ordered before
RECURSIVE SortedOrders(_)
SortedOrders(rows) ==
  IF rows = {} THEN {<< >>}
  ELSE UNION {{<<r>> \o rest : rest \in SortedOrders(rows \ {r})} :
                r \in {x \in rows : \A y \in rows : ~OrderedBefore(y, x)}}

get_client_statement(uid, p_client_id, p_start_date, p_end_date) ==
  SortedOrders(StatementRows(uid, p_client_id, p_start_date, p_end_date))

StmtFirstDay == 40
StmtDates == {StmtFirstDay, StmtFirstDay + 1}

InitStatement ==
  /\ today = StmtFirstDay + 1
  /\ invoices = EmptyTable
  /\ invoice_items = EmptyTable
  /\ credit_notes = EmptyTable
  /\ credit_note_items = EmptyTable
  /\ students = EmptyTable
  /\ recurring_invoices = EmptyTable
  /\ NoSchoolRecords
  /\ ran_today = FALSE
  /\ sessions = [s \in Sessions |-> IdleSession("invoice", "u1")]

NextStatement ==
  \/ CallGenerator(1)
  \/ \E date \in StmtDates, tax \in TaxRates : InsertDocument(1, "c1", date, tax)
  \/ \E it \in TotalsItem : InsertFormItems(1, <<it>>)
  \/ \E d \in 1..MaxInvoices : RecordPayment("u1", d)

SpecStatement == InitStatement /\ [][NextStatement]_vars

\* debit - credit summed over the first k rows of out
RECURSIVE PrefixBalance(_, _)
PrefixBalance(out, k) ==
  IF k = 0 THEN 0 ELSE PrefixBalance(out, k - 1) + out[k].debit - out[k].credit

\* C6: in every result of get_client_statement the running_balance of each
\* row is the sum of debit - credit over the rows up to and including it, in
\* output order.
C6_RunningBalanceIsPrefixSum ==
  \A lo \in StmtDates : \A hi \in StmtDates :
    \A out \in get_client_statement("u1", "c1", lo, hi) :
      \A k \in DOMAIN out : out[k].running_balance = PrefixBalance(out, k)

-----------------------------------------------------------------------------
(* Recurring invoices *)

Frequencies == {"weekly", "monthly", "quarterly", "yearly"}
WeekDays == 7
RecurringDueDays == 30

\* d + interval '1 week' | '1 month' | '3 months' | '1 year'
AddInterval(d, frequency) ==
  CASE frequency = "weekly" -> d + WeekDays
    [] frequency = "monthly" -> AddMonths(d, 1)
    [] frequency = "quarterly" -> AddMonths(d, 3)
    [] frequency = "yearly" -> AddMonths(d, 12)

\* timestamptz + interval: the time of day is kept
AddIntervalTs(ts, frequency) == [day |-> AddInterval(ts.day, frequency), tod |-> ts.tod]

\* ts <= CURRENT_DATE, the date being taken at 00:00:00
NotAfterMidnightOf(ts, d) == ts.day < d \/ (ts.day = d /\ ts.tod = 0)

\* RecurringInvoiceModal.onSubmit: INSERT INTO recurring_invoices, status
\* 'active', last_generated null; end_date is {} (null) or one date, and the
\* table's end_date_check rejects an end_date that is not after start_date
CreateTemplate(u, c, frequency, start_date, end_date, amount, tax) ==
  /\ \A e \in end_date : e > start_date
  /\ amount > 0 /\ tax >= 0
  /\ recurring_invoices' =
       Put(recurring_invoices, FreshId(recurring_invoices),
           [client_id |-> c, user_id |-> u, frequency |-> frequency,
            start_date |-> start_date, end_date |-> end_date, amount |-> amount,
            tax_rate |-> tax, status |-> "active", last_generated |-> {}])
  /\ UNCHANGED <<sideVars, today, invoices, invoice_items, credit_notes, credit_note_items,
                 students, ran_today, sessions>>

\* UPDATE recurring_invoices SET status = ... by its owner (policy "Users can
\* update their own recurring invoices"; the column's CHECK admits three values)
SetTemplateStatus(u, t, status) ==
  /\ t \in DOMAIN recurring_invoices
  /\ recurring_invoices[t].user_id = u
  /\ status \in {"active", "paused", "completed"}
  /\ recurring_invoices[t].status # status
  /\ recurring_invoices' = [recurring_invoices EXCEPT ![t].status = status]
  /\ UNCHANGED <<sideVars, today, invoices, invoice_items, credit_notes, credit_note_items,
                 students, ran_today, sessions>>

\* the WHERE clause without its test of status
RecurringSelected_AnyStatus(rec) ==
  /\ (rec.last_generated = {}
      \/ \E lg \in rec.last_generated :
           NotAfterMidnightOf(AddIntervalTs(lg, rec.frequency), today))
  /\ (rec.end_date = {} \/ \E e \in rec.end_date : e >= today)

\* the WHERE clause of the loop's SELECT
RecurringSelected(rec) ==
  /\ rec.status = "active"
  /\ (rec.last_generated = {}
      \/ \E lg \in rec.last_generated :
           NotAfterMidnightOf(AddIntervalTs(lg, rec.frequency), today))
  /\ (rec.end_date = {} \/ \E e \in rec.end_date : e >= today)

\* the next date counted from the day of the run
NextInvoiceDate_FromToday(rec) == AddInterval(today, rec.frequency)

\* next_date := COALESCE(rec.last_generated::date, rec.start_date) + interval
NextInvoiceDate(rec) ==
  LET base == IF rec.last_generated = {} THEN rec.start_date
              ELSE (CHOOSE lg \in rec.last_generated : TRUE).day
  IN AddInterval(base, rec.frequency)

\* a loop body without its final UPDATE
StampGenerated_Keep(rec, now) == rec

\* last_generated = CURRENT_TIMESTAMP
StampGenerated(rec, now) == [rec EXCEPT !.last_generated = {now}]

RECURSIVE RecurringLoop(_, _, _)
\* the body of the FOR loop for the selected rows todo, on the tables in st
RecurringLoop(st, todo, now) ==
  IF todo = {} THEN st
  ELSE LET t == CHOOSE x \in todo : \A y \in todo : x <= y
           rec == st.rec[t]
           next_date == NextInvoiceDate(rec)
           invoice_id == FreshId(st.inv)
           inv1 == Put(st.inv, invoice_id,
                       [number |-> generate_invoice_number(st.inv, Definer),
                        client_id |-> rec.client_id, user_id |-> rec.user_id,
                        date |-> next_date, due_date |-> next_date + RecurringDueDays,
                        tax_rate |-> rec.tax_rate, subtotal |-> 0, tax_amount |-> 0,
                        total |-> 0, status |-> "draft", created_at |-> today])
           items1 == Put(st.items, FreshId(st.items),
                         ItemRow(invoice_id, 1, rec.amount, rec.amount))
       IN RecurringLoop([inv |-> update_invoice_totals(inv1, items1, {invoice_id}),
                         items |-> items1,
                         rec |-> [st.rec EXCEPT ![t] = StampGenerated(rec, now)]],
                        todo \ {t}, now)

\* the daily run of generate_recurring_invoices() (SECURITY DEFINER) by the
\* cron job '0 0 * * *', at time of day tod of the current day
generate_recurring_invoices(tod) ==
  LET now == [day |-> today, tod |-> tod]
      todo == {t \in DOMAIN recurring_invoices : RecurringSelected(recurring_invoices[t])}
      out == RecurringLoop([inv |-> invoices, items |-> invoice_items,
                            rec |-> recurring_invoices], todo, now)
  IN /\ ~ran_today
     /\ Cardinality(DOMAIN invoices) + Cardinality(todo) <= MaxInvoices
     /\ Cardinality(DOMAIN invoice_items) + Cardinality(todo) <= MaxItems
     /\ invoices' = out.inv
     /\ invoice_items' = out.items
     /\ recurring_invoices' = out.rec
     /\ ran_today' = TRUE
     /\ UNCHANGED <<sideVars, today, credit_notes, credit_note_items, students, sessions>>

\* midnight passes in the recurring-invoice window; the job may run on the
\* new day or be skipped
RecurringNextDay(last) ==
  /\ today < last
  /\ today' = today + 1
  /\ ran_today' = FALSE
  /\ UNCHANGED <<sideVars, invoices, invoice_items, credit_notes, credit_note_items, students,
                 recurring_invoices, sessions>>

RecFirstDay == 31
RecDays == 30
TimesOfDay == {0, 1}
RecClients == {"c1"}
RecStartDates == {RecFirstDay - 1, RecFirstDay}
RecEndDates == {{}, {RecFirstDay + 1}, {RecFirstDay + 8}}

InitRecurring ==
  /\ today = RecFirstDay
  /\ invoices = EmptyTable
  /\ invoice_items = EmptyTable
  /\ credit_notes = EmptyTable
  /\ credit_note_items = EmptyTable
  /\ students = EmptyTable
  /\ recurring_invoices = EmptyTable
  /\ NoSchoolRecords
  /\ ran_today = FALSE
  /\ sessions = [s \in Sessions |-> IdleSession("invoice", "u1")]

\* each template bills another client
UnbilledClients == {c \in Clients :
                      \A t \in DOMAIN recurring_invoices : recurring_invoices[t].client_id # c}

NextRecurring ==
  \/ \E c \in UnbilledClients \cap RecClients, f \in Frequencies,
        start \in RecStartDates, end \in RecEndDates :
       CreateTemplate(ClientOwner(c), c, f, start, end, 500, 15)
  \/ \E t \in DOMAIN recurring_invoices, st \in {"active", "paused", "completed"} :
       SetTemplateStatus(recurring_invoices[t].user_id, t, st)
  \/ \E tod \in TimesOfDay : generate_recurring_invoices(tod)
  \/ RecurringNextDay(RecFirstDay + RecDays)

SpecRecurring == InitRecurring /\ [][NextRecurring]_vars

\* a step in which the cron job runs
RunStep == ~ran_today /\ ran_today'

\* the invoices of the client that template rec bills
InvoicesFor(tbl, rec) == {i \in DOMAIN tbl : tbl[i].client_id = rec.client_id}

\* last_generated + period(frequency) <= today, as timestamps
PeriodElapsed(rec) ==
  \E lg \in rec.last_generated :
    LET due == AddInterval(lg.day, rec.frequency)
    IN due < today \/ (due = today /\ lg.tod = 0)

\* C7: a run creates an invoice for a template exactly when the template is
\* active, its end_date is null or not before today, and last_generated is
\* null or last_generated + period <= today; for any other template (paused,
\* completed, ended, not yet due) it creates none.
C7_GeneratesIffDue ==
  [][RunStep =>
       \A t \in DOMAIN recurring_invoices :
         LET rec == recurring_invoices[t]
             before == Cardinality(InvoicesFor(invoices, rec))
             after == Cardinality(InvoicesFor(invoices', rec))
             due == /\ rec.status = "active"
                    /\ (rec.end_date = {} \/ \A e \in rec.end_date : e >= today)
                    /\ (rec.last_generated = {} \/ PeriodElapsed(rec))
         IN IF due THEN after = before + 1 ELSE after = before]_vars

\* a template that generated on its first run and again one period later,
\* in today's run
C7_Witness ==
  \E t \in DOMAIN recurring_invoices :
    /\ ran_today
    /\ Cardinality(InvoicesFor(invoices, recurring_invoices[t])) = 2
    /\ \E lg \in recurring_invoices[t].last_generated : lg.day = today

\* C8: the dates of consecutive invoices generated from one template are
\* exactly one period apart.
C8_RegularCadence ==
  \A t \in DOMAIN recurring_invoices :
    LET rec == recurring_invoices[t]
        mine == InvoicesFor(invoices, rec)
    IN \A i \in mine : \A j \in mine :
         (i < j /\ ~\E k \in mine : i < k /\ k < j)
         => invoices[j].date = AddInterval(invoices[i].date, rec.frequency)

\* C9: the date of every invoice a run generates is the date of the
\* template's last_generated plus one period, or start_date plus one period
\* when last_generated is null.
C9_DateFromLastGenerated ==
  [][RunStep =>
       \A i \in DOMAIN invoices' \ DOMAIN invoices :
         \E t \in DOMAIN recurring_invoices :
           LET rec == recurring_invoices[t]
               base == IF rec.last_generated = {} THEN rec.start_date
                       ELSE (CHOOSE lg \in rec.last_generated : TRUE).day
           IN /\ invoices'[i].client_id = rec.client_id
              /\ invoices'[i].date = AddInterval(base, rec.frequency)]_vars

\* today's run generated a template's second invoice, dated one period after
\* the previous run and not one period after today
C9_Witness ==
  \E t \in DOMAIN recurring_invoices :
    /\ ran_today
    /\ Cardinality(InvoicesFor(invoices, recurring_invoices[t])) >= 2
    /\ \E lg \in recurring_invoices[t].last_generated : lg.day = today
    /\ \E i \in InvoicesFor(invoices, recurring_invoices[t]) :
         /\ \A j \in InvoicesFor(invoices, recurring_invoices[t]) : j <= i
         /\ invoices[i].date # AddInterval(today, recurring_invoices[t].frequency)

\* C10: a run that finds an active template whose end_date is before the
\* current day leaves it completed.
C10_CompletedAfterEndDate ==
  [][RunStep =>
       \A t \in DOMAIN recurring_invoices :
         (/\ recurring_invoices[t].status = "active"
          /\ \E e \in recurring_invoices[t].end_date : e < today)
         => recurring_invoices'[t].status = "completed"]_vars

-----------------------------------------------------------------------------
(* Assessments and the weighted subject average *)

MaxAssessments == 3

StudentIds == {"s1", "s2"}
StudentOwner(st) == IF st = "s1" THEN "u1" ELSE "u2"
SubjectIds == {"math", "eng"}

\* numeric values are counted in 1/NumericScale
NumericScale == 10 * 10 * 10 * 10

\* numeric division a / b of integers a >= 0, b > 0, rounded half up at the
\* model's scale
NumericDiv(a, b) == (2 * a * NumericScale + b) \div (2 * b)

\* policy "Users can view and manage assessments for their students"
OwnsStudent(u, st) == StudentOwner(st) = u

\* AddAssessmentModal.onSubmit: insert({...data}); the schema and the CHECK
\* constraints both admit weight and score from 0 to 100
AddAssessment(u, row) ==
  /\ Cardinality(DOMAIN assessments) < MaxAssessments
  /\ OwnsStudent(u, row.student_id)
  /\ row.term \in 1..4
  /\ row.weight \in 0..PercentBase /\ row.score \in 0..PercentBase
  /\ assessments' = Put(assessments, FreshId(assessments), row)
  /\ UNCHANGED <<docVars, trackVars, importVars, reportVars, guest_forms>>

\* Assessments.handleDeleteAssessment: delete().eq('id', assessmentId)
DeleteAssessment(u, a) ==
  /\ a \in DOMAIN assessments
  /\ OwnsStudent(u, assessments[a].student_id)
  /\ assessments' = Drop(assessments, {a})
  /\ UNCHANGED <<docVars, trackVars, importVars, reportVars, guest_forms>>

\* the function with the year left out of its WHERE clause
calculate_subject_average_AnyYear(p_student_id, p_subject_id, p_term, p_year) ==
  LET rows == {a \in DOMAIN assessments :
                 /\ assessments[a].student_id = p_student_id
                 /\ assessments[a].subject_id = p_subject_id
                 /\ assessments[a].term = p_term}
      sw == SetSum([a \in rows |-> assessments[a].score * assessments[a].weight], rows)
      w == SetSum([a \in rows |-> assessments[a].weight], rows)
  IN IF rows = {} THEN [error |-> FALSE, value |-> 0]
     ELSE IF w = 0 THEN [error |-> TRUE, value |-> 0]
     ELSE [error |-> FALSE, value |-> NumericDiv(sw, w)]

\* SECURITY DEFINER: the SELECT sees every row. SUM over no row is NULL, and
\* NULL / NULL is NULL, which COALESCE turns into 0; SUM(weight) = 0 over
\* matching rows raises division_by_zero (error |-> TRUE).
calculate_subject_average(p_student_id, p_subject_id, p_term, p_year) ==
  LET rows == {a \in DOMAIN assessments :
                 /\ assessments[a].student_id = p_student_id
                 /\ assessments[a].subject_id = p_subject_id
                 /\ assessments[a].term = p_term
                 /\ assessments[a].year = p_year}
      sw == SetSum([a \in rows |-> assessments[a].score * assessments[a].weight], rows)
      w == SetSum([a \in rows |-> assessments[a].weight], rows)
  IN IF rows = {} THEN [error |-> FALSE, value |-> 0]
     ELSE IF w = 0 THEN [error |-> TRUE, value |-> 0]
     ELSE [error |-> FALSE, value |-> NumericDiv(sw, w)]

AssessYears == {EpochYear, EpochYear + 1}
AssessTerms == {1, 2}

\* the assessment keys entered: one base key and one key differing from it in
\* each single column
AssessKeys ==
  {[student_id |-> "s1", subject_id |-> "math", term |-> 1, year |-> EpochYear],
   [student_id |-> "s2", subject_id |-> "math", term |-> 1, year |-> EpochYear],
   [student_id |-> "s1", subject_id |-> "eng", term |-> 1, year |-> EpochYear],
   [student_id |-> "s1", subject_id |-> "math", term |-> 2, year |-> EpochYear],
   [student_id |-> "s1", subject_id |-> "math", term |-> 1, year |-> EpochYear + 1]}

\* (score, weight) pairs entered
AssessMarks == {<<80, 50>>, <<60, 50>>, <<60, 0>>, <<70, 30>>}

AssessmentRow(k, m) ==
  [student_id |-> k.student_id, subject_id |-> k.subject_id, term |-> k.term,
   year |-> k.year, score |-> m[1], weight |-> m[2]]

InitAssess ==
  /\ today = TotalsFirstDay
  /\ invoices = EmptyTable
  /\ invoice_items = EmptyTable
  /\ credit_notes = EmptyTable
  /\ credit_note_items = EmptyTable
  /\ students = EmptyTable
  /\ recurring_invoices = EmptyTable
  /\ NoSchoolRecords
  /\ ran_today = FALSE
  /\ sessions = [s \in Sessions |-> IdleSession("invoice", "u1")]

\* the rows entered: every key with every pair of marks
AssessRows == {AssessmentRow(k, m) : k \in AssessKeys, m \in AssessMarks}

NextAssess ==
  \/ \E row \in AssessRows : AddAssessment(StudentOwner(row.student_id), row)
  \/ \E a \in 1..MaxAssessments : \E u \in Users : DeleteAssessment(u, a)

SpecAssess == InitAssess /\ [][NextAssess]_vars

\* the assessments matching all four arguments
MatchingAssessments(st, sj, t, y) ==
  {a \in DOMAIN assessments :
     <<assessments[a].student_id, assessments[a].subject_id,
       assessments[a].term, assessments[a].year>> = <<st, sj, t, y>>}

\* C11: calculate_subject_average returns 0 when no assessment matches the
\* four arguments and, when the matching assessments have a positive weight
\* sum, the quotient of their sum of score * weight by their sum of weight
\* (to the precision of the numeric scale).
C11_WeightedAverage ==
  \A st \in StudentIds, sj \in SubjectIds, t \in AssessTerms, y \in AssessYears :
    LET m == MatchingAssessments(st, sj, t, y)
        sw == SetSum([a \in m |-> assessments[a].score * assessments[a].weight], m)
        w == SetSum([a \in m |-> assessments[a].weight], m)
        r == calculate_subject_average(st, sj, t, y)
    IN /\ m = {} => r = [error |-> FALSE, value |-> 0]
       /\ w > 0 => /\ ~r.error
                   /\ 2 * (r.value * w - sw * NumericScale) <= w
                   /\ 2 * (sw * NumericScale - r.value * w) <= w

\* scores 80 and 60, each of weight 50, average 70 for the base key, while
\* an assessment of another year exists
C11_Witness ==
  /\ calculate_subject_average("s1", "math", 1, EpochYear)
       = [error |-> FALSE, value |-> 70 * NumericScale]
  /\ Cardinality(MatchingAssessments("s1", "math", 1, EpochYear)) = 2
  /\ MatchingAssessments("s1", "math", 1, EpochYear + 1) # {}

-----------------------------------------------------------------------------
(* CSV import of students and clients *)

MaxImported == 2

\* requiredHeaders of the two dialogs
RequiredHeaders(kind) ==
  IF kind = "student"
  THEN {"first_name", "last_name", "date_of_birth", "grade", "language",
        "parent_name", "parent_email"}
  ELSE {"name", "email", "address"}

\* A CSV file: its non-blank lines; the first one is the header row, each
\* header cell already trimmed; the other lines are data rows.
ValidFile(kind) ==
  [name |-> "valid", lines |-> 2, headers |-> RequiredHeaders(kind) \cup {"phone"}]
HeaderOnlyFile(kind) ==
  [name |-> "header_only", lines |-> 1, headers |-> RequiredHeaders(kind)]
NoEmailFile(kind) ==
  [name |-> "no_email", lines |-> 2,
   headers |-> RequiredHeaders(kind) \ {"email", "parent_email"}]
EmptyFile == [name |-> "empty", lines |-> 0, headers |-> {}]
ImportFiles(kind) == {ValidFile(kind), HeaderOnlyFile(kind), NoEmailFile(kind), EmptyFile}

\* rows.slice(1).map(...): one object per data row
ParsedRows(file) == [i \in 1..(file.lines - 1) |-> [file |-> file.name, line |-> i]]

\* requiredHeaders.every(h => headers.includes(h))
HasRequiredHeaders(kind, file) == RequiredHeaders(kind) \subseteq file.headers

\* handleFileChange up to  await file.text()
SelectFile(kind, file) ==
  /\ file \notin import_modal[kind].reading
  /\ import_modal' = [import_modal EXCEPT
                        ![kind].reading = @ \cup {file},
                        ![kind].selected = {file}]
  /\ UNCHANGED <<docVars, trackVars, assessments, clients, reportVars, guest_forms>>

\* handleFileChange after  await file.text(): rows[0] of a file without lines
\* is undefined, so rows[0].map throws and the catch block runs
FileRead(kind, file) ==
  /\ file \in import_modal[kind].reading
  /\ import_modal' = [import_modal EXCEPT
       ![kind] = IF file.lines = 0
                 THEN [@ EXCEPT !.reading = @ \ {file},
                                !.error = "parse_failed", !.preview = << >>]
                 ELSE IF ~HasRequiredHeaders(kind, file)
                 THEN [@ EXCEPT !.reading = @ \ {file},
                                !.error = "missing_columns", !.preview = << >>]
                 ELSE [@ EXCEPT !.reading = @ \ {file},
                                !.error = "none", !.preview = ParsedRows(file)]]
  /\ UNCHANGED <<docVars, trackVars, assessments, clients, reportVars, guest_forms>>

RECURSIVE PutRows(_, _, _)
\* insert(preview.map(row => ({..., user_id: user.id})))
PutRows(tbl, rows, u) ==
  IF rows = << >> THEN tbl
  ELSE PutRows(Put(tbl, FreshId(tbl), [user_id |-> u, origin |-> Head(rows)]),
               Tail(rows), u)

\* onSubmit of ImportClientModal and ImportStudentModal. The student rows
\* carry no student_number, so the BEFORE INSERT trigger calls
\* generate_student_number for each of them.
SubmitImport(kind, u) ==
  LET m == import_modal[kind] IN
  /\ Cardinality(DOMAIN clients) + Len(m.preview) <= MaxImported
  /\ IF m.preview = << >>
     THEN /\ import_modal' = [import_modal EXCEPT ![kind].error = "no_valid_file"]
          /\ UNCHANGED clients
     ELSE IF kind = "student" /\ set_student_number(SqlNull, u) = SqlError
     THEN /\ import_modal' = [import_modal EXCEPT ![kind].error = "import_failed"]
          /\ UNCHANGED clients
     ELSE /\ clients' = IF kind = "client" THEN PutRows(clients, m.preview, u) ELSE clients
          /\ import_modal' = [import_modal EXCEPT ![kind] = ClosedImport]
  /\ UNCHANGED <<docVars, trackVars, assessments, reportVars, guest_forms>>

InitImport ==
  /\ today = TotalsFirstDay
  /\ invoices = EmptyTable
  /\ invoice_items = EmptyTable
  /\ credit_notes = EmptyTable
  /\ credit_note_items = EmptyTable
  /\ students = EmptyTable
  /\ recurring_invoices = EmptyTable
  /\ NoSchoolRecords
  /\ ran_today = FALSE
  /\ sessions = [s \in Sessions |-> IdleSession("invoice", "u1")]

\* the files of both dialogs
AllImportFiles == {file \in UNION {ImportFiles(kind) : kind \in ImportKinds} : TRUE}

NextImport ==
  \/ \E kind \in ImportKinds : \E file \in AllImportFiles :
       file \in ImportFiles(kind) /\ SelectFile(kind, file)
  \/ \E kind \in ImportKinds : \E file \in AllImportFiles :
       file \in ImportFiles(kind) /\ FileRead(kind, file)
  \/ \E kind \in ImportKinds : SubmitImport(kind, "u1")

SpecImport == InitImport /\ [][NextImport]_vars

\* C12: once the file selected last lacks a required column and its
\* selection has been handled, the dialog shows the missing-column error and
\* an empty preview, so that a submit persists no row.
C12_MissingColumnEmptiesPreview ==
  \A kind \in ImportKinds :
    LET m == import_modal[kind] IN
      (/\ m.reading = {}
       /\ \E file \in m.selected : file.lines > 0 /\ ~HasRequiredHeaders(kind, file))
      => m.preview = << >>

-----------------------------------------------------------------------------
(* Report cards *)

MaxReportCards == 2

\* UNIQUE(student_id, term, year): whether another row than those in except
\* holds the triple of data
ReportCardTripleTaken_Never(tbl, data, except) == FALSE

ReportCardTripleTaken(tbl, data, except) ==
  \E c \in DOMAIN tbl \ except :
    /\ tbl[c].student_id = data.student_id
    /\ tbl[c].term = data.term
    /\ tbl[c].year = data.year

\* policy "Users can view and manage report cards": USING and WITH CHECK
\* (auth.uid() = user_id)
OwnReportCards(u) == {c \in DOMAIN report_cards : report_cards[c].user_id = u}

\* ReportCardForm.onSubmit up to  await supabase.auth.getUser(); editing is
\* the set holding the id of the route /report-cards/:id/edit, empty on the
\* create route
StartSaveReportCard(u, editing, data) ==
  /\ report_form[u].pc = "idle"
  /\ editing \subseteq OwnReportCards(u)
  /\ report_form' = [report_form EXCEPT
                       ![u] = [pc |-> "saving", error |-> "none",
                               editing |-> editing, data |-> data]]
  /\ UNCHANGED <<docVars, trackVars, guest_forms, assessments, importVars, report_cards,
                 report_card_subjects>>

\* the subject marks of card c replaced by marks (upsert of the loaded rows)
\* or added to it (insert)
WithMarks(tbl, c, marks) ==
  LET kept == {m \in DOMAIN tbl : tbl[m].report_card_id # c}
      base == [m \in kept |-> tbl[m]]
  IN IF marks = {} THEN base
     ELSE Put(base, FreshId(base),
              [report_card_id |-> c, term_mark |-> CHOOSE x \in marks : TRUE])

\* ReportCardForm.onSubmit after getUser: the UPDATE or the INSERT of the
\* report card, then the upsert or insert of its subject marks
FinishSaveReportCard(u) ==
  LET f == report_form[u]
      row == [student_id |-> f.data.student_id, term |-> f.data.term,
              year |-> f.data.year, teacher_comment |-> f.data.teacher_comment,
              status |-> "draft", user_id |-> u]
      hit == f.editing \cap OwnReportCards(u)
  IN /\ f.pc = "saving"
     /\ IF f.editing # {}
        THEN IF hit # {} /\ ReportCardTripleTaken(report_cards, f.data, hit)
             THEN /\ report_form' = [report_form EXCEPT ![u].pc = "idle",
                                                        ![u].error = "save_failed"]
                  /\ UNCHANGED <<report_cards, report_card_subjects>>
             ELSE IF hit = {} /\ f.data.marks # {}
             THEN \* the UPDATE matches no row; the upsert of the marks then
                  \* breaks the foreign key report_card_id
                  /\ report_form' = [report_form EXCEPT ![u].pc = "idle",
                                                        ![u].error = "save_failed"]
                  /\ UNCHANGED <<report_cards, report_card_subjects>>
             ELSE /\ report_cards' =
                       [c \in DOMAIN report_cards |->
                          IF c \in hit
                          THEN [report_cards[c] EXCEPT
                                  !.student_id = f.data.student_id,
                                  !.term = f.data.term, !.year = f.data.year,
                                  !.teacher_comment = f.data.teacher_comment]
                          ELSE report_cards[c]]
                  /\ report_card_subjects' =
                       IF hit = {} THEN report_card_subjects
                       ELSE WithMarks(report_card_subjects,
                                      CHOOSE c \in hit : TRUE, f.data.marks)
                  /\ report_form' = [report_form EXCEPT ![u] = IdleReportForm]
        ELSE IF ReportCardTripleTaken(report_cards, f.data, {})
             THEN /\ report_form' = [report_form EXCEPT ![u].pc = "idle",
                                                        ![u].error = "save_failed"]
                  /\ UNCHANGED <<report_cards, report_card_subjects>>
             ELSE /\ Cardinality(DOMAIN report_cards) < MaxReportCards
                  /\ LET id == FreshId(report_cards) IN
                       /\ report_cards' = Put(report_cards, id, row)
                       /\ report_card_subjects' =
                            WithMarks(report_card_subjects, id, f.data.marks)
                  /\ report_form' = [report_form EXCEPT ![u] = IdleReportForm]
     /\ UNCHANGED <<docVars, trackVars, guest_forms, assessments, importVars>>

\* ReportCards.handleDeleteReportCard; the subject marks go with the card
\* (ON DELETE CASCADE)
DeleteReportCard(u, c) ==
  /\ c \in OwnReportCards(u)
  /\ report_cards' = Drop(report_cards, {c})
  /\ report_card_subjects' =
       Drop(report_card_subjects,
            {m \in DOMAIN report_card_subjects :
               report_card_subjects[m].report_card_id = c})
  /\ UNCHANGED <<docVars, trackVars, guest_forms, assessments, importVars, report_form>>

ReportTerms == {1, 2}
\* (teacher_comment, term marks) entered in the form
ReportEntries == {<<"good", {}>>, <<"fair", {50}>>}
ReportData ==
  {[student_id |-> "s1", term |-> t, year |-> EpochYear,
    teacher_comment |-> e[1], marks |-> e[2]] : t \in ReportTerms, e \in ReportEntries}

InitReports ==
  /\ today = TotalsFirstDay
  /\ invoices = EmptyTable
  /\ invoice_items = EmptyTable
  /\ credit_notes = EmptyTable
  /\ credit_note_items = EmptyTable
  /\ students = EmptyTable
  /\ recurring_invoices = EmptyTable
  /\ NoSchoolRecords
  /\ ran_today = FALSE
  /\ sessions = [s \in Sessions |-> IdleSession("invoice", "u1")]

NextReports ==
  \/ \E u \in Users, data \in ReportData : StartSaveReportCard(u, {}, data)
  \/ \E u \in Users, data \in ReportData : \E c \in 1..MaxReportCards :
       StartSaveReportCard(u, {c}, data)
  \/ \E u \in Users : FinishSaveReportCard(u)
  \/ \E u \in Users : \E c \in 1..MaxReportCards : DeleteReportCard(u, c)

SpecReports == InitReports /\ [][NextReports]_vars

\* a save by u (a create, or an edit of a report card that exists) whose
\* triple is held by a report card other than the edited one
ConflictingSave(u) ==
  /\ report_form[u].pc = "saving"
  /\ report_form[u].editing \subseteq OwnReportCards(u)
  /\ \E c \in DOMAIN report_cards \ report_form[u].editing :
       /\ report_cards[c].student_id = report_form[u].data.student_id
       /\ report_cards[c].term = report_form[u].data.term
       /\ report_cards[c].year = report_form[u].data.year

\* C13: no two report cards share (student, term, year), and a save whose
\* triple is held by another report card fails and changes no report card.
C13_OneReportCardPerTerm ==
  /\ [](\A a \in DOMAIN report_cards : \A b \in DOMAIN report_cards :
          (a # b) => <<report_cards[a].student_id, report_cards[a].term,
                       report_cards[a].year>>
                     # <<report_cards[b].student_id, report_cards[b].term,
                         report_cards[b].year>>)
  /\ [][\A u \in Users :
          (ConflictingSave(u) /\ report_form'[u].pc = "idle")
          => /\ report_cards' = report_cards
             /\ report_form'[u].error = "save_failed"]_vars

\* two report cards exist and a save onto the triple of one of them has
\* just failed
C13_Witness ==
  /\ Cardinality(DOMAIN report_cards) = 2
  /\ \E u \in Users :
       /\ report_form[u].error = "save_failed"
       /\ report_form[u].editing # {}

-----------------------------------------------------------------------------
(* Invoice list, payments and email tracking *)

MaxEmailLogs == 1

\* InvoiceList.fetchInvoices: select('*') under the policy "Users can view
\* their own invoices"; the component keeps the rows it received
FetchInvoices(u) ==
  /\ invoice_list' = [invoice_list EXCEPT
                        ![u] = [i \in Visible(invoices, u) |-> invoices[i].status]]
  /\ invoice_list' # invoice_list
  /\ UNCHANGED <<docVars, email_logs, assessments, importVars, reportVars, guest_forms>>

\* the UPDATE below, had it reset the total as well
SetInvoiceStatus_ResetTotal(u, d, status) ==
  [i \in DOMAIN invoices |->
     IF i = d /\ invoices[i].user_id = u
     THEN [invoices[i] EXCEPT !.status = status, !.total = 0] ELSE invoices[i]]

\* UPDATE invoices SET status = status WHERE id = d, run by u under the
\* policy "Users can update their own invoices"
SetInvoiceStatus(u, d, status) ==
  [i \in DOMAIN invoices |->
     IF i = d /\ invoices[i].user_id = u
     THEN [invoices[i] EXCEPT !.status = status] ELSE invoices[i]]

\* the Record Payment entry of the list, shown while the listed status is not
\* 'paid', and RecordPaymentModal.onSubmit for the invoice it was opened with
RecordPaymentFromList(u, d) ==
  /\ d \in DOMAIN invoice_list[u]
  /\ invoice_list[u][d] # "paid"
  /\ invoices' = SetInvoiceStatus(u, d, "paid")
  /\ UNCHANGED <<today, invoice_items, credit_notes, credit_note_items, students,
                 recurring_invoices, ran_today, sessions, sideVars>>

\* InvoiceList.generatePDF for a listed invoice whose listed status is
\* 'draft': the UPDATE to 'sent', then the same change in the local state.
\* For any other listed status the handler only draws the PDF.
generatePDF(u, d) ==
  /\ d \in DOMAIN invoice_list[u]
  /\ invoice_list[u][d] = "draft"
  /\ invoices' = SetInvoiceStatus(u, d, "sent")
  /\ invoice_list' = [invoice_list EXCEPT ![u][d] = "sent"]
  /\ UNCHANGED <<today, invoice_items, credit_notes, credit_note_items, students,
                 recurring_invoices, ran_today, sessions, email_logs,
                 assessments, importVars, reportVars, guest_forms>>

\* INSERT INTO email_logs by the owner of the invoice (policy "Users can
\* insert their own email logs v2")
QueueEmail(u, d) ==
  /\ OwnsDoc("invoice", u, d)
  /\ Cardinality(DOMAIN email_logs) < MaxEmailLogs
  /\ email_logs' = Put(email_logs, FreshId(email_logs),
                       [invoice_id |-> d, status |-> "queued"])
  /\ UNCHANGED <<docVars, invoice_list, assessments, importVars, reportVars, guest_forms>>

\* email_logs_status_check and email_events_event_type_check
EmailLogStatuses == {"queued", "sent", "delivered", "failed"}
EmailEventTypes == {"queued", "sent", "delivered", "opened", "clicked", "bounced",
                    "complained", "unsubscribed"}

\* trigger function handle_email_event for a new event of log l: the tables
\* after its two UPDATEs
handle_email_event(logs, invs, l, event_type) ==
  [logs |-> [logs EXCEPT ![l].status =
               IF event_type \in {"bounced", "complained"} THEN "failed"
               ELSE IF event_type \in {"delivered", "opened", "clicked"} THEN "delivered"
               ELSE event_type],
   invs |-> IF event_type \in {"sent", "delivered", "opened", "clicked"}
            THEN [i \in DOMAIN invs |->
                    IF i = logs[l].invoice_id /\ invs[i].status = "draft"
                    THEN [invs[i] EXCEPT !.status = "sent"] ELSE invs[i]]
            ELSE invs]

\* trigger function update_email_status
update_email_status(logs, l, event_type) == [logs EXCEPT ![l].status = event_type]

\* INSERT INTO email_events for log l. Both AFTER INSERT triggers are in
\* place and fire in the order of their names: email_event_trigger, then
\* update_email_status_trigger. A status outside email_logs_status_check
\* aborts the statement, which then changes nothing.
InsertEmailEvent(l, event_type) ==
  LET first == handle_email_event(email_logs, invoices, l, event_type)
      logs2 == update_email_status(first.logs, l, event_type)
  IN /\ l \in DOMAIN email_logs
     /\ event_type \in EmailEventTypes
     /\ first.logs[l].status \in EmailLogStatuses
     /\ logs2[l].status \in EmailLogStatuses
     /\ email_logs' = logs2
     /\ invoices' = first.invs
     /\ <<email_logs', invoices'>> # <<email_logs, invoices>>
     /\ UNCHANGED <<today, invoice_items, credit_notes, credit_note_items, students,
                    recurring_invoices, ran_today, sessions, invoice_list,
                    assessments, importVars, reportVars, guest_forms>>

InitLifecycle ==
  /\ today = TotalsFirstDay
  /\ invoices = EmptyTable
  /\ invoice_items = EmptyTable
  /\ credit_notes = EmptyTable
  /\ credit_note_items = EmptyTable
  /\ students = EmptyTable
  /\ recurring_invoices = EmptyTable
  /\ NoSchoolRecords
  /\ ran_today = FALSE
  /\ sessions = [s \in Sessions |-> IdleSession("invoice", IF s = 1 THEN "u1" ELSE "u2")]

NextLifecycle ==
  \/ \E s \in Sessions : CallGenerator(s)
  \/ \E s \in Sessions : \E c \in Clients :
       ClientOwner(c) = SessionUser(s) /\ InsertDocument(s, c, today, 0)
  \/ \E s \in Sessions : InsertFormItems(s, <<CHOOSE it \in TotalsItem : TRUE>>)
  \/ \E u \in Users : FetchInvoices(u)
  \/ \E u \in Users : \E d \in 1..MaxInvoices : RecordPaymentFromList(u, d)
  \/ \E u \in Users : \E d \in 1..MaxInvoices : generatePDF(u, d)
  \/ \E u \in Users : \E d \in 1..MaxInvoices : QueueEmail(u, d)
  \/ \E l \in 1..MaxEmailLogs : \E event_type \in EmailEventTypes :
       InsertEmailEvent(l, event_type)

SpecLifecycle == InitLifecycle /\ [][NextLifecycle]_vars

\* the moves of the status that the lifecycle allows
LifecycleMoves ==
  {<<"draft", "sent">>, <<"sent", "paid">>, <<"sent", "overdue">>, <<"overdue", "paid">>}

\* C15: the status of an invoice changes only along draft -> sent ->
\* paid / overdue: never from draft to paid, and never once it is paid.
C15_StatusLifecycle ==
  [][\A d \in DOMAIN invoices :
       \/ invoices'[d].status = invoices[d].status
       \/ <<invoices[d].status, invoices'[d].status>> \in LifecycleMoves]_vars

-----------------------------------------------------------------------------
(* Financial reads: statement summary, monthly revenue, top clients *)

\* the view client_statement_summary as user uid reads it. The view runs
\* with the rights of its owner, so the policies on invoices do not apply
\* inside it: the only owner filter is the one written in the view, on clients.
client_statement_summary(uid) ==
  [c \in {x \in Clients : ClientOwner(x) = uid} |->
     LET joined == {i \in DOMAIN invoices : invoices[i].client_id = c}
         paid == {i \in joined : invoices[i].status = "paid"}
         outstanding == {i \in joined : invoices[i].status \in {"sent", "overdue"}}
         dates == {invoices[i].date : i \in joined}
     IN [total_invoices |-> Cardinality(joined),
         total_paid |-> SetSum([i \in paid |-> invoices[i].total], paid),
         total_outstanding |->
           SetSum([i \in outstanding |-> invoices[i].total], outstanding),
         first_invoice_date |-> IF dates = {} THEN {} ELSE {-SetMax({-x : x \in dates})},
         last_invoice_date |-> IF dates = {} THEN {} ELSE {SetMax(dates)}]]

\* the rows both report functions aggregate: paid invoices of the caller
\* created in the range (SECURITY DEFINER, filter i.user_id = auth.uid())
PaidInRange(uid, start_date, end_date) ==
  {i \in DOMAIN invoices :
     /\ invoices[i].created_at >= start_date
     /\ invoices[i].created_at <= end_date
     /\ invoices[i].user_id = uid
     /\ invoices[i].status = "paid"}

\* date_trunc('month', created_at)
MonthOf(n) == <<ToYMD(n)[1], ToYMD(n)[2]>>

\* get_monthly_revenue: one row per month that has a paid invoice
get_monthly_revenue(uid, start_date, end_date) ==
  LET rows == PaidInRange(uid, start_date, end_date)
  IN {[month |-> m,
       amount |-> LET of == {i \in rows : MonthOf(invoices[i].created_at) = m}
                  IN SetSum([i \in of |-> invoices[i].total], of)] :
        m \in {MonthOf(invoices[i].created_at) : i \in rows}}

DefaultLimit == 5

\* get_top_clients: the results ORDER BY total DESC LIMIT limit_count may
\* return (ties are cut in any order). The join reads clients with the
\* rights of the function owner and has no filter on the owner of the client.
get_top_clients(uid, start_date, end_date, limit_count) ==
  LET rows == PaidInRange(uid, start_date, end_date)
      groups == {[name |-> c,
                  total |-> LET of == {i \in rows : invoices[i].client_id = c}
                            IN SetSum([i \in of |-> invoices[i].total], of)] :
                   c \in {invoices[i].client_id : i \in rows}}
  IN {top \in SUBSET groups :
        /\ Cardinality(top) = Min2(limit_count, Cardinality(groups))
        /\ \A r \in top : \A q \in groups \ top : r.total >= q.total}

InitReads ==
  /\ today = StmtFirstDay + 1
  /\ invoices = EmptyTable
  /\ invoice_items = EmptyTable
  /\ credit_notes = EmptyTable
  /\ credit_note_items = EmptyTable
  /\ students = EmptyTable
  /\ recurring_invoices = EmptyTable
  /\ NoSchoolRecords
  /\ ran_today = FALSE
  /\ sessions = [s \in Sessions |-> IdleSession("invoice", IF s = 1 THEN "u1" ELSE "u2")]

\* any signed-in user may insert an invoice with any existing client_id: the
\* INSERT policy on invoices checks user_id only, and the foreign key to
\* clients is checked without row-level security
NextReads ==
  \/ \E s \in Sessions : CallGenerator(s)
  \/ \E s \in Sessions, c \in Clients : InsertDocument(s, c, today, 0)
  \/ \E s \in Sessions : \E it \in TotalsItem : InsertFormItems(s, <<it>>)
  \/ \E u \in Users : \E d \in 1..MaxInvoices : RecordPayment(u, d)

SpecReads == InitReads /\ [][NextReads]_vars

\* the invoices user u owns
OwnInvoices(u) == [i \in Visible(invoices, u) |-> invoices[i]]

\* everything user u reads through the four statement and report queries,
\* over a range that holds every date of the model
Reads(u) ==
  <<[c \in Clients |-> get_client_statement(u, c, StmtFirstDay, StmtFirstDay + 2)],
    client_statement_summary(u),
    get_monthly_revenue(u, StmtFirstDay, StmtFirstDay + 2),
    get_top_clients(u, StmtFirstDay, StmtFirstDay + 2, DefaultLimit)>>

\* C14: what a user reads through get_client_statement,
\* client_statement_summary, get_monthly_revenue and get_top_clients depends
\* only on the rows that user owns: a step that leaves the user's own invoices
\* as they are leaves every one of these results as it is.
C14_ReadsDependOnOwnRows ==
  [][\A u \in Users : OwnInvoices(u)' = OwnInvoices(u) => Reads(u)' = Reads(u)]_vars

-----------------------------------------------------------------------------
(* Decimal places of the stored totals *)

\* 0.01 in the unit of the money columns
CentUnits == 10 * 10

\* n / d rounded to 2 decimal places, half away from zero (n, d positive)
RoundToCents(n, d) == ((2 * n + d * CentUnits) \div (2 * d * CentUnits)) * CentUnits

\* the line amounts of document d carry at most 2 decimal places
CentAmounts(kind, d) ==
  \A i \in ItemsOf(ItemTableOf(kind), d) : ItemTableOf(kind)[i].amount % CentUnits = 0

\* C16: for every document with at least one line item whose amounts carry at
\* most 2 decimal places, tax_amount is subtotal * tax_rate / 100 rounded to 2
\* decimal places, total is subtotal + tax_amount, and neither carries more
\* than 2 decimal places.
C16_TaxRoundedToCents ==
  \A kind \in Kinds : \A d \in DOMAIN DocsOf(kind) :
    (ItemsOf(ItemTableOf(kind), d) # {} /\ CentAmounts(kind, d))
    => LET row == DocsOf(kind)[d]
       IN /\ row.tax_amount = RoundToCents(row.subtotal * row.tax_rate, PercentBase)
          /\ row.total = row.subtotal + row.tax_amount
          /\ row.tax_amount % CentUnits = 0
          /\ row.total % CentUnits = 0

-----------------------------------------------------------------------------
(* JavaScript numbers: IEEE 754 binary64 *)

\* a natural number of any size is the sequence of its binary digits, most
\* significant first, or the sequence of its groups of LimbBits digits
LimbBits == 13
LimbBase == 2 ^ LimbBits

Zeros(k) == [i \in 1..k |-> 0]

RECURSIVE StripZeros(_)
StripZeros(bits) ==
  IF bits # << >> /\ Head(bits) = 0 THEN StripZeros(Tail(bits)) ELSE bits

\* the groups of a small number, most significant first
RECURSIVE LimbsOf(_)
LimbsOf(n) ==
  IF n < LimbBase THEN <<n>> ELSE Append(LimbsOf(n \div LimbBase), n % LimbBase)

\* the digits of a sequence of groups, most significant first
BitsOfLimbs(limbs) ==
  StripZeros([p \in 1..(Len(limbs) * LimbBits) |->
                (limbs[((p - 1) \div LimbBits) + 1]
                   \div 2 ^ (LimbBits - 1 - ((p - 1) % LimbBits))) % 2])

\* the groups of a sequence of digits, least significant first, from index 0
ToLimbs(bits) ==
  LET L == Len(bits)
      n == (L + LimbBits - 1) \div LimbBits
      digit(p) == IF p < L THEN bits[L - p] ELSE 0
  IN [k \in 0..(n - 1) |->
        SetSum([t \in 0..(LimbBits - 1) |-> digit(LimbBits * k + t) * 2 ^ t],
               0..(LimbBits - 1))]

\* limbs \div d and limbs % d for a small divisor d, by long division
RECURSIVE LongDiv(_, _, _, _)
LongDiv(limbs, d, q, rem) ==
  IF limbs = << >> THEN [q |-> q, r |-> rem]
  ELSE LET cur == rem * LimbBase + Head(limbs)
       IN LongDiv(Tail(limbs), d, Append(q, cur \div d), cur % d)

\* a + b for two digit sequences of one length n: digit i of the sum is
\* a[i] + b[i] plus the carry that arrives from the digits after i
CarryInto(a, b, i) ==
  \E j \in (i + 1)..Len(a) :
    /\ a[j] + b[j] = 2
    /\ \A k \in (i + 1)..(j - 1) : a[k] + b[k] = 1

AddBits(a, b) ==
  LET n == Max2(Len(a), Len(b)) + 1
      x == Zeros(n - Len(a)) \o a
      y == Zeros(n - Len(b)) \o b
  IN StripZeros([i \in 1..n |->
                   (x[i] + y[i] + (IF CarryInto(x, y, i) THEN 1 ELSE 0)) % 2])

\* the carries of the column sums taken up, from the least significant
\* column; the result has the most significant group first
RECURSIVE Normalise(_, _, _, _)
Normalise(cols, k, carry, acc) ==
  IF k \notin DOMAIN cols THEN <<carry>> \o acc
  ELSE LET t == cols[k] + carry
       IN Normalise(cols, k + 1, t \div LimbBase, <<t % LimbBase>> \o acc)

\* a * b by the schoolbook method on the groups
MulBits(a, b) ==
  LET x == ToLimbs(a)
      y == ToLimbs(b)
      nx == Cardinality(DOMAIN x)
      ny == Cardinality(DOMAIN y)
      cols == [k \in 0..(nx + ny - 2) |->
                 LET is == {i \in DOMAIN x : k - i \in DOMAIN y}
                 IN SetSum([i \in is |-> x[i] * y[k - i]], is)]
  IN BitsOfLimbs(Normalise(cols, 0, 0, << >>))

MantissaBits == 53
GuardLimbs == 6

\* a binary64 value in the normal range: (-1)^neg * m * 2^e with m of 53
\* digits; zero has the empty mantissa
DoubleZero == [neg |-> FALSE, m |-> << >>, e |-> 0]

\* round to nearest, ties to even: the value is (Q + f) * 2^e where Q has more
\* than 53 digits and 0 <= f < 1, sticky telling whether f > 0
RoundToDouble(neg, Q, sticky, e) ==
  LET L == Len(Q)
      top == SubSeq(Q, 1, MantissaBits)
      half == Q[MantissaBits + 1] = 1
      rest == sticky \/ \E i \in (MantissaBits + 2)..L : Q[i] = 1
      up == half /\ (rest \/ top[MantissaBits] = 1)
      m == IF up THEN AddBits(top, <<1>>) ELSE top
  IN IF Len(m) > MantissaBits
     THEN [neg |-> neg, m |-> SubSeq(m, 1, MantissaBits), e |-> e + (L - MantissaBits) + 1]
     ELSE [neg |-> neg, m |-> m, e |-> e + (L - MantissaBits)]

\* the binary64 value nearest to the decimal n / d: what parseFloat and JSON
\* parsing give for the text of that decimal
ToDouble(n, d) ==
  IF n = 0 THEN DoubleZero
  ELSE LET mag == IF n < 0 THEN -n ELSE n
           div == LongDiv(LimbsOf(mag) \o Zeros(GuardLimbs), d, << >>, 0)
       IN RoundToDouble(n < 0, BitsOfLimbs(div.q), div.r > 0, -(GuardLimbs * LimbBits))

\* the JavaScript operator * on two numbers
JsMul(x, y) ==
  IF x.m = << >> \/ y.m = << >> THEN DoubleZero
  ELSE RoundToDouble(x.neg # y.neg, MulBits(x.m, y.m), FALSE, x.e + y.e)

\* x < y for two positive binary64 values
DoubleLess(x, y) ==
  \/ x.e < y.e
  \/ /\ x.e = y.e
     /\ \E i \in 1..MantissaBits :
          /\ x.m[i] < y.m[i]
          /\ \A j \in 1..(i - 1) : x.m[j] = y.m[j]

\* the money columns hold 1/10000 in the model's integers
UnitsPerOne == 10 * 10 * 10 * 10

\* what a numeric column stores when the request body carries the JavaScript
\* number quantity * rate. JSON.stringify writes the shortest decimal that
\* reads back as the same binary64 value: the decimal product itself when
\* that one reads back as the value, otherwise a decimal of 16 or 17
\* significant digits next to it. amount is the stored value to the model
\* unit; amount_tail is the sign of what the stored value has beyond it.
JsAmount(quantity, rate) ==
  LET x == JsMul(ToDouble(quantity, 1), ToDouble(rate, UnitsPerOne))
      exact == ToDouble(quantity * rate, UnitsPerOne)
      above == IF x.neg THEN DoubleLess(x, exact) ELSE DoubleLess(exact, x)
  IN [amount |-> quantity * rate,
      amount_tail |-> IF x = exact THEN 0 ELSE IF above THEN 1 ELSE -1]

-----------------------------------------------------------------------------
(* Bulk invoice import *)

\* the numbers an entry 'description|quantity|rate' of the items column may hold
BulkQuantities == {0, 1, 3}
BulkRates == {-5000, 1000, 5000}
BulkEntries == [quantity : BulkQuantities, rate : BulkRates]

\* parseFloat(quantity) * parseFloat(rate) for the entries above
BulkAmounts == [e \in BulkEntries |-> JsAmount(e.quantity, e.rate)]

\* the row the handler builds from one entry and the row invoice_items then
\* holds: the table has no CHECK constraint on quantity, rate or amount
BulkItemRow(d, e) ==
  [doc |-> d, quantity |-> e.quantity, rate |-> e.rate,
   amount |-> BulkAmounts[e].amount, amount_tail |-> BulkAmounts[e].amount_tail]

RECURSIVE PutBulkItems(_, _, _)
PutBulkItems(items, d, entries) ==
  IF entries = << >> THEN items
  ELSE PutBulkItems(Put(items, FreshId(items), BulkItemRow(d, entries[1])),
                    d, Tail(entries))

\* BulkInvoiceModal.onSubmit for one row of the preview, after the invoice of
\* the row is inserted (generateInvoiceNumber and the insert are CallGenerator
\* and InsertDocument): row.items is split and mapped, and the rows are
\* inserted in one statement, each firing update_invoice_totals
InsertBulkItems(s, entries) ==
  LET d == sessions[s].doc
  IN /\ sessions[s].pc = "inserted"
     /\ sessions[s].kind = "invoice"
     /\ Cardinality(DOMAIN invoice_items) + Len(entries) <= MaxItems
     /\ LET items == PutBulkItems(invoice_items, d, entries)
        IN SetTables("invoice", TotalsTrigger("invoice", invoices, items, {d}), items)
     /\ sessions' = [sessions EXCEPT ![s].pc = "idle"]
     /\ UNCHANGED <<sideVars, today, students, recurring_invoices, ran_today>>

InitBulk ==
  /\ today = TotalsFirstDay
  /\ invoices = EmptyTable
  /\ invoice_items = EmptyTable
  /\ credit_notes = EmptyTable
  /\ credit_note_items = EmptyTable
  /\ students = EmptyTable
  /\ recurring_invoices = EmptyTable
  /\ NoSchoolRecords
  /\ ran_today = FALSE
  /\ sessions = [s \in Sessions |-> IdleSession("invoice", "u1")]

NextBulk ==
  \/ \E s \in Sessions : CallGenerator(s)
  \/ \E s \in Sessions : \E tax \in TaxRates : InsertDocument(s, "c1", today, tax)
  \/ \E s \in Sessions : \E e \in BulkEntries : InsertBulkItems(s, <<e>>)

SpecBulk == InitBulk /\ [][NextBulk]_vars

\* every line item of either kind
AllItems ==
  {invoice_items[i] : i \in DOMAIN invoice_items}
    \cup {credit_note_items[i] : i \in DOMAIN credit_note_items}

\* C17: every stored line item has amount = quantity * rate, to the last
\* decimal the column holds.
C17_AmountIsQuantityTimesRate ==
  \A row \in AllItems :
    /\ row.amount = row.quantity * row.rate
    /\ "amount_tail" \in DOMAIN row => row.amount_tail = 0

\* C18: no stored line item has a negative rate or a quantity below 1.
C18_NoInvalidItemStored ==
  \A row \in AllItems : row.rate >= 0 /\ row.quantity >= 1

-----------------------------------------------------------------------------
(* Who writes the totals of an invoice *)

TotalsOf(row) == <<row.subtotal, row.tax_amount, row.total>>

\* one account creating invoices, recording payments, downloading PDFs and
\* receiving email events
NextFrame ==
  \/ CallGenerator(1)
  \/ InsertDocument(1, "c1", today, 0)
  \/ InsertFormItems(1, <<CHOOSE it \in TotalsItem : TRUE>>)
  \/ FetchInvoices("u1")
  \/ \E d \in 1..MaxInvoices : RecordPaymentFromList("u1", d)
  \/ \E d \in 1..MaxInvoices : generatePDF("u1", d)
  \/ \E d \in 1..MaxInvoices : QueueEmail("u1", d)
  \/ \E l \in 1..MaxEmailLogs : \E event_type \in EmailEventTypes :
       InsertEmailEvent(l, event_type)

SpecFrame == InitLifecycle /\ [][NextFrame]_vars

\* C19: subtotal, tax_amount and total of an invoice are written by the
\* line-item trigger only: a step that changes no line item (the insert of
\* an invoice, a recorded payment, a PDF download, an email event) leaves the
\* three fields of every invoice as they were, and a new invoice has them at
\* the column default 0.
C19_OnlyTriggerWritesTotals ==
  [][invoice_items' = invoice_items
       => \A d \in DOMAIN invoices' :
            IF d \in DOMAIN invoices
            THEN TotalsOf(invoices'[d]) = TotalsOf(invoices[d])
            ELSE TotalsOf(invoices'[d]) = <<0, 0, 0>>]_vars

C19_Witness ==
  \E d \in DOMAIN invoices : \E l \in DOMAIN email_logs :
    /\ invoices[d].total > 0
    /\ invoices[d].status = "paid"
    /\ email_logs[l].invoice_id = d
    /\ email_logs[l].status = "delivered"
    /\ \E e \in DOMAIN invoices : e # d /\ invoices[e].status = "sent" /\ invoices[e].total > 0

-----------------------------------------------------------------------------
(* Order of the statement entries *)

\* the results the statement of client c1 over all the dates may be
FullStatements == get_client_statement("u1", "c1", StmtFirstDay, StmtFirstDay + 1)

\* C20: the entries get_client_statement returns are in non-decreasing date
\* order, and among the entries of one date every invoice entry comes before
\* every payment entry.
C20_StatementOrder ==
  \A out \in FullStatements : \A j \in DOMAIN out : \A k \in DOMAIN out :
    j < k => /\ out[j].date <= out[k].date
             /\ out[j].date = out[k].date
                  => ~(out[j].type = "payment" /\ out[k].type = "invoice")

C20_Witness ==
  \E out \in FullStatements : \E j \in DOMAIN out : \E k \in DOMAIN out :
    /\ out[j].date = out[k].date
    /\ out[j].type = "invoice" /\ out[k].type = "payment"
    /\ out[j].inv = out[k].inv
    /\ \E h \in DOMAIN out : out[h].date # out[j].date

-----------------------------------------------------------------------------
(* Summary against ledger *)

\* C21: for a client and a range that holds all the client's invoices, the
\* summary agrees with the ledger entries: total_invoices is the number of
\* invoice entries, total_paid the sum of the credits, and total_outstanding
\* the final running balance.
C21_SummaryAgreesWithLedger ==
  \A out \in FullStatements :
    LET summary == client_statement_summary("u1")["c1"]
        debits == {j \in DOMAIN out : out[j].type = "invoice"}
    IN /\ summary.total_invoices = Cardinality(debits)
       /\ summary.total_paid = SetSum([j \in DOMAIN out |-> out[j].credit], DOMAIN out)
       /\ summary.total_outstanding
            = IF out = << >> THEN 0 ELSE out[Len(out)].running_balance

-----------------------------------------------------------------------------
(* Create operations with no signed-in user *)

\* the test left out
UserMissing_Never(user) == FALSE

\* if (!user): user is what supabase.auth.getUser() resolved to, {} for null
UserMissing(user) == user = {}

\* the mount of a create form or dialog
OpenCreateForm(op) ==
  /\ guest_forms[op] # FreshCreateForm
  /\ guest_forms' = [guest_forms EXCEPT ![op] = FreshCreateForm]
  /\ UNCHANGED <<docVars, trackVars, assessments, importVars, reportVars>>

\* onSubmit of the create form op in a browser where getUser() resolves to no
\* user: setError('You must be logged in ...') and return. Past the test the
\* handler would go on to its insert, which the policies refuse to a caller
\* with no auth.uid(), and show its failure message.
SubmitSignedOut(op) ==
  /\ guest_forms[op].error = "none"
  /\ guest_forms' = [guest_forms EXCEPT ![op] =
                       IF UserMissing({})
                       THEN [error |-> "login_required", requested |-> @.requested]
                       ELSE [error |-> "failed", requested |-> TRUE]]
  /\ UNCHANGED <<docVars, trackVars, assessments, importVars, reportVars>>

\* a signed-in account creating invoices next to the signed-out browser
NextGuest ==
  \/ \E op \in CreateOps : OpenCreateForm(op)
  \/ \E op \in CreateOps : SubmitSignedOut(op)
  \/ CallGenerator(1)
  \/ InsertDocument(1, "c1", today, 0)
  \/ InsertFormItems(1, <<CHOOSE it \in TotalsItem : TRUE>>)

SpecGuest == InitLifecycle /\ [][NextGuest]_vars

\* the tables whose rows carry their owner
OwnedRows ==
  {invoices[i] : i \in DOMAIN invoices} \cup {credit_notes[i] : i \in DOMAIN credit_notes}
    \cup {students[i] : i \in DOMAIN students}
    \cup {recurring_invoices[i] : i \in DOMAIN recurring_invoices}
    \cup {report_cards[i] : i \in DOMAIN report_cards}
    \cup {clients[i] : i \in DOMAIN clients}

AllTables ==
  <<invoices, invoice_items, credit_notes, credit_note_items, students,
    recurring_invoices, assessments, clients, report_cards, report_card_subjects>>

\* C22: a create operation submitted with no authenticated user shows the
\* login error, sends no insert and changes no table; no stored row has an
\* empty owner.
C22_SignedOutCreatesNothing ==
  /\ [](\A row \in OwnedRows : row.user_id \in Users)
  /\ [][\A op \in CreateOps :
          (guest_forms[op].error = "none" /\ guest_forms'[op].error # "none")
          => /\ guest_forms'[op].error = "login_required"
             /\ ~guest_forms'[op].requested
             /\ AllTables' = AllTables]_vars

C22_Witness ==
  /\ \A op \in CreateOps : guest_forms[op].error = "login_required"
  /\ \E i \in DOMAIN invoices : invoices[i].total > 0

-----------------------------------------------------------------------------
(* Generated numbers across accounts *)

\* C23: the number a generator returns to a caller is held by no existing
\* document of any account, so that no creation fails on the unique-number
\* constraint because of a row the caller cannot see.
C23_GeneratedNumberUnusedAnywhere ==
  \A kind \in Kinds : \A u \in Users : ~NumberTaken(kind, GenerateNumber(kind, u))

-----------------------------------------------------------------------------
(* A save whose second insert fails *)

\* the insert of the line items answered with an error: the statement stores
\* no row, the handler shows 'Failed to save ... items' and returns; it sends
\* no request that removes the document it inserted before
InsertFormItemsError(s) ==
  /\ sessions[s].pc = "inserted"
  /\ sessions' = [sessions EXCEPT ![s].pc = "idle", ![s].error = "items_failed"]
  /\ UNCHANGED <<sideVars, today, invoices, invoice_items, credit_notes, credit_note_items,
                 students, recurring_invoices, ran_today>>

NextSave ==
  \/ \E s \in Sessions : CallGenerator(s)
  \/ \E s \in Sessions : \E tax \in TaxRates : InsertDocument(s, "c1", today, tax)
  \/ \E s \in Sessions : \E it \in TotalsItem : InsertFormItems(s, <<it>>)
  \/ \E s \in Sessions : InsertFormItemsError(s)

SpecSave == InitTotals /\ [][NextSave]_vars

\* C24: creating an invoice or a credit note is all-or-nothing: when the
\* insert of its line items fails, the document inserted before it is no
\* longer stored.
C24_SaveIsAllOrNothing ==
  [][\A s \in Sessions :
       (sessions[s].pc = "inserted" /\ sessions'[s].error = "items_failed")
       => sessions[s].doc \notin DOMAIN DocsOf(sessions[s].kind)']_vars

-----------------------------------------------------------------------------
(* The average of assessments of weight 0 *)

\* C25: calculate_subject_average returns a number, and raises no error, for
\* every set of assessments the table constraints admit.
C25_AverageNeverFails ==
  \A st \in StudentIds, sj \in SubjectIds, t \in AssessTerms, y \in AssessYears :
    ~calculate_subject_average(st, sj, t, y).error

-----------------------------------------------------------------------------
(* Scheduler runs repeated within one day, and templates that start later *)

RerunDays == 8
RerunFrequencies == {"weekly", "monthly"}
RerunStartDates == {RecFirstDay, RecFirstDay + 2}

\* the tables a run of generate_recurring_invoices() at time of day tod of
\* the current day leaves
RunTables(tod) ==
  RecurringLoop([inv |-> invoices, items |-> invoice_items, rec |-> recurring_invoices],
                {t \in DOMAIN recurring_invoices : RecurringSelected(recurring_invoices[t])},
                [day |-> today, tod |-> tod])

\* a further call of generate_recurring_invoices() on a day on which the cron
\* job has already run (the function is SECURITY DEFINER and is not bound to
\* the cron job)
RunAgain(tod) ==
  LET out == RunTables(tod)
  IN /\ ran_today
     /\ Cardinality(DOMAIN out.inv) <= MaxInvoices
     /\ Cardinality(DOMAIN out.items) <= MaxItems
     /\ invoices' = out.inv
     /\ invoice_items' = out.items
     /\ recurring_invoices' = out.rec
     /\ UNCHANGED <<sideVars, today, credit_notes, credit_note_items, students, sessions,
                    ran_today>>

NextRerun ==
  \/ \E c \in UnbilledClients, f \in RerunFrequencies, start \in RerunStartDates :
       CreateTemplate(ClientOwner(c), c, f, start, {}, 500, 15)
  \/ \E tod \in TimesOfDay : generate_recurring_invoices(tod)
  \/ \E tod \in TimesOfDay : RunAgain(tod)
  \/ RecurringNextDay(RecFirstDay + RerunDays)

SpecRerun == InitRecurring /\ [][NextRerun]_vars

\* template t gains an invoice in the step
Generates(t) ==
  Cardinality(InvoicesFor(invoices', recurring_invoices[t]))
    > Cardinality(InvoicesFor(invoices, recurring_invoices[t]))

\* C26: no invoice is generated from a template by a run that takes place
\* before the template's start_date.
C26_NoGenerationBeforeStart ==
  [][\A t \in DOMAIN recurring_invoices :
       Generates(t) => recurring_invoices[t].start_date <= today]_vars

\* C27: no invoice generated from a template is dated after the template's
\* end_date.
C27_NoInvoiceAfterEndDate ==
  \A t \in DOMAIN recurring_invoices :
    \A i \in InvoicesFor(invoices, recurring_invoices[t]) :
      \A e \in recurring_invoices[t].end_date : invoices[i].date <= e

\* C28: a run that directly follows a run on the same day selects no template
\* and so creates no invoice; a template that generates in a run has
\* last_generated set to the timestamp of that run, and it generates in a
\* run only when it never generated before or one period has passed since
\* its last_generated.
C28_SecondRunCreatesNothing ==
  /\ [](\A tod \in TimesOfDay :
          \A t \in DOMAIN recurring_invoices :
            ~RecurringSelected(RunTables(tod).rec[t]))
  /\ [][\A t \in DOMAIN recurring_invoices :
          Generates(t)
          => /\ \E tod \in TimesOfDay :
                  recurring_invoices'[t].last_generated = {[day |-> today, tod |-> tod]}
             /\ recurring_invoices[t].last_generated = {}
                  \/ PeriodElapsed(recurring_invoices[t])]_vars

\* one template generated in today's midnight run and still has that one
\* invoice after a later run of the same day, which generated for a template
\* created in between
C28_Witness ==
  \E t \in DOMAIN recurring_invoices, n \in DOMAIN recurring_invoices :
    /\ ran_today
    /\ recurring_invoices[t].last_generated = {[day |-> today, tod |-> 0]}
    /\ recurring_invoices[n].last_generated = {[day |-> today, tod |-> 1]}
    /\ Cardinality(InvoicesFor(invoices, recurring_invoices[t])) = 1
    /\ Cardinality(InvoicesFor(invoices, recurring_invoices[n])) = 1

-----------------------------------------------------------------------------
(* Clicks on Save while a save is pending                                    *)
(* Here the entries of sessions are the invocations of onSubmit of one       *)
(* mounted form, one per click on its Save button: the handler keeps no      *)
(* state between invocations, so a second click runs the same steps as a     *)
(* click in a second copy of the form.                                       *)

\* <button type="button" onClick={handleSubmit(onSubmit)}>: the Save button
\* has no disabled attribute and the forms read no isSubmitting flag, so the
\* button accepts a click whatever the invocations in flight
SaveButtonEnabled(pending) == TRUE

\* the invocations of onSubmit that have not returned
PendingSaves == {s \in Sessions : sessions[s].pc # "idle"}

\* a click on Save: handleSubmit validates the fields and calls onSubmit,
\* whose first request is the number generator
ClickSave(s) ==
  /\ SaveButtonEnabled(PendingSaves)
  /\ CallGenerator(s)

InitClicks ==
  /\ InitTotals
  /\ \A s \in Sessions : sessions[s].user = "u1"

NextClicks ==
  \/ \E s \in Sessions : ClickSave(s)
  \/ \E s \in Sessions : InsertDocument(s, "c1", today, 0)
  \/ \E s \in Sessions : \E it \in TotalsItem : InsertFormItems(s, <<it>>)

SpecClicks == InitClicks /\ [][NextClicks]_vars

\* C29: each save has at most one request in flight: while one save of the
\* form is pending no second save starts.
C29_OneSaveInFlight ==
  [][\A s \in Sessions :
       (sessions[s].pc = "idle" /\ sessions'[s].pc # "idle") => PendingSaves = {}]_vars

-----------------------------------------------------------------------------
(* Email events against the status constraint of email_logs *)

\* the statuses the UPDATEs of the two AFTER INSERT triggers write to log l
\* for a new event of type event_type, in the order the triggers fire
EventStatusWrites(l, event_type) ==
  LET first == handle_email_event(email_logs, invoices, l, event_type)
  IN <<first.logs[l].status, update_email_status(first.logs, l, event_type)[l].status>>

\* C30: the insert of an email event of any type that
\* email_events_event_type_check admits succeeds, and the triggers leave the
\* status of the email log in queued, sent, delivered, failed.
C30_EveryEventTypeAccepted ==
  \A l \in DOMAIN email_logs : \A event_type \in EmailEventTypes :
    \A j \in 1..2 : EventStatusWrites(l, event_type)[j] \in EmailLogStatuses

====
